---- MODULE Spec2Model ----
(***************************************************************************)
(* ProLens: a browser-resident photography course.  The model covers the   *)
(* Key-Value flag store (localStorage), the two local document stores      *)
(* (IndexedDB 'materials' and 'presentations'), the optional Cloud Mirror, *)
(* the two bundle codecs (admin backup, student sync), the registration    *)
(* list and the components that drive them.                                *)
(*                                                                         *)
(* Conventions.  A JavaScript string is a sequence (the empty string is    *)
(* <<>>); JSON.stringify(x) is the one-element sequence <<x>>, so that a   *)
(* JSON text is never the empty string and JSON.parse fails on "".  A      *)
(* nullable string (the result of localStorage.getItem, a bundle field) is *)
(* a record [null, s].  Sizes are in bytes.                                *)
(***************************************************************************)
EXTENDS Integers, Sequences, FiniteSets, TLC

VARIABLES
    localStorage,   \* Key-Value flag store: key -> nullable string
    localDB,        \* IndexedDB ProLensDB/materials: set of records, keyPath id
    userRole,       \* App state userRole: "none" | "student" | "admin"
    currentView,    \* App state currentView
    showSyncModal,  \* App state showSyncModal
    isSetupMode,    \* LoginScreen state isSetupMode
    registrations,  \* AdminDashboard state registrations (in-memory copy of the list)
    importing,      \* the import in flight: its path, its position and the file it reads
    downloads,      \* the file last handed to the browser for download (<<>> before the first export)
    lastAlert,      \* the message of the last alert() ("none" when the last step showed none)
    apiKey,         \* services/firebase firebaseConfig.apiKey, fixed at deployment
    firebaseDb,     \* services/firebase: TRUE when `db` and `storage` were initialised
    cloudDocs,      \* Cloud Mirror: the Firestore collection 'materials', newest first
    cloudCalls,     \* the Cloud Mirror write functions called so far
    cloudBlobs,     \* Cloud Mirror: the download URLs of the blobs in object storage
    lbPhase,        \* LearningBox: "unmounted" | "rendered" (effect pending) | "ready"
    isCloudConfigured, \* LearningBox state isCloudConfigured
    materials,      \* LearningBox state materials (the in-memory list)
    batch,          \* the processFiles call in flight: the files left and the mode it captured
    deletion,       \* the deleteMaterialFromCloud call in flight: its position and arguments
    request,        \* the AI request in flight: the lists and the mode its handler captured
    regSubmitted,   \* LoginScreen state regSubmitted
    presDB,         \* IndexedDB ProLensContentDB/presentations: set of records, keyPath id
    uploading,      \* CourseRegistration: isUploading and the file being read
    loading,        \* LearningBox state loading
    placeholders,   \* LearningBox state messages: how many of them have the id 'loading'
    overlapping,    \* the AI requests started while another one was in flight
    completedTopics, \* LearningBox state completedTopics
    activeQuiz,     \* LearningBox state activeQuiz: the topic of the open quiz and its question
    quizFeedback,   \* LearningBox state quizFeedback: "none" | "correct" | "incorrect"
    timers,         \* the pending setTimeout callbacks of handleQuizAnswer, with what they captured
    unhandled,      \* TRUE once a rejected promise reached the global handler of the page
    now             \* Date.now(), in units of the clock's resolution

\* the state of the stores, the App shell and the bundle codecs
appVars == <<localStorage, localDB, userRole, currentView, showSyncModal, isSetupMode,
             registrations, importing, downloads, lastAlert>>

\* the deployment and the Cloud Mirror
cloudVars == <<apiKey, firebaseDb, cloudDocs, cloudCalls, cloudBlobs>>

\* the state of the LearningBox component
lbVars == <<lbPhase, isCloudConfigured, materials>>

\* the presentations store and its component
presVars == <<presDB, uploading>>

\* the chat of the LearningBox
chatVars == <<loading, placeholders, overlapping>>

\* the topics of the LearningBox and their quiz
quizVars == <<completedTopics, activeQuiz, quizFeedback, timers>>

vars == <<appVars, cloudVars, lbVars, batch, deletion, request, regSubmitted, presVars,
          chatVars, quizVars, unhandled, now>>

----------------------------------------------------------------------------
(* JavaScript values *)

Null == [null |-> TRUE, s |-> <<>>]

Str(s) == [null |-> FALSE, s |-> s]

\* JavaScript truthiness of a nullable string: null and "" are falsy
Truthy(v) == ~v.null /\ v.s # <<>>

JSONstringify(x) == <<x>>

\* a field of a parsed bundle: has = FALSE when the key is missing (undefined)
Missing == [has |-> FALSE, v |-> Null]

Present(v) == [has |-> TRUE, v |-> v]

MissingList == [has |-> FALSE, v |-> <<>>]

PresentList(l) == [has |-> TRUE, v |-> l]

\* truthiness of a bundle field holding a nullable string
TruthyField(f) == f.has /\ Truthy(f.v)

----------------------------------------------------------------------------
(* Key-Value flag namespace *)

K_ROLE == "prolens_user_role"
K_PROFILE == "prolens_student_profile"
K_MESSAGES == "prolens_messages"
K_TOPICS == "prolens_completed_topics"
K_ANNOUNCEMENT == "prolens_announcement"
K_REGISTRATIONS == "prolens_registrations"
K_MY_REGISTRATION == "prolens_my_registration"
K_ADMIN_PASSWORD == "prolens_admin_password"

Keys == {K_ROLE, K_PROFILE, K_MESSAGES, K_TOPICS, K_ANNOUNCEMENT,
         K_REGISTRATIONS, K_MY_REGISTRATION, K_ADMIN_PASSWORD}

getItem(ls, k) == ls[k]

setItem(ls, k, s) == [ls EXCEPT ![k] = Str(s)]

removeItem(ls, k) == [ls EXCEPT ![k] = Null]

----------------------------------------------------------------------------
(* Local Document Store: an object store with keyPath 'id' *)

\* mutant of put: the record is added next to the one that has its id
putBeside(store, rec) == store \cup {rec}

\* mutant of put: add-only, a record whose id is in the store is not written
putIfAbsent(store, rec) ==
    IF \E r \in store : r.id = rec.id THEN store ELSE store \cup {rec}

\* IDBObjectStore.put: insert-or-replace by id
put(store, rec) == {r \in store : r.id # rec.id} \cup {rec}

\* mutant of delete: a delete that finds no record under the id empties the store
deleteOrClear(store, id) ==
    IF \E r \in store : r.id = id THEN {r \in store : r.id # id} ELSE {}

\* IDBObjectStore.delete
delete(store, id) == {r \in store : r.id # id}

\* IDBObjectStore.clear
clear(store) == {}

RECURSIVE getAll(_)
\* IDBObjectStore.getAll: every record, in key order
getAll(store) ==
    IF store = {} THEN <<>>
    ELSE LET first == CHOOSE r \in store : \A q \in store : r.id <= q.id
         IN <<first>> \o getAll(store \ {first})

RECURSIVE putAll(_, _)
\* for (const item of list) store.put(item)
putAll(store, list) ==
    IF list = <<>> THEN store
    ELSE putAll(put(store, Head(list)), Tail(list))

----------------------------------------------------------------------------
(* Sync/Backup bundle values used as import files *)

\* a content reference is a URL, kept as its host and its path: a data URL carries the
\* file inline (`FileReader.readAsDataURL`)
DataURL == [host |-> "data:", path |-> 0]

Material(id, type, analyzed) ==
    [id |-> id, type |-> type, name |-> "file", content |-> DataURL, isAnalyzed |-> analyzed]

Registration(id, name, phone, level, status) ==
    [id |-> id, fullName |-> name, phone |-> phone, level |-> level, status |-> status]

Bundle(ann, msgs, topics, regs, prof, myreg, mats) ==
    [announcement |-> ann, messages |-> msgs, completedTopics |-> topics,
     registrations |-> regs, profile |-> prof, myRegistration |-> myreg, materials |-> mats]

\* the text of a file: ok = FALSE when it is not valid JSON
JSONFile(bundle) == [ok |-> TRUE, json |-> bundle]

EmptyBundle == Bundle(Missing, Missing, Missing, MissingList, Missing, Missing, MissingList)

MalformedFile == [ok |-> FALSE, json |-> EmptyBundle]

OnlyMaterialsBundle ==
    Bundle(Missing, Missing, Missing, MissingList, Missing, Missing,
           PresentList(<<Material(1, "text", FALSE)>>))

EmptyValuesBundle ==
    Bundle(Present(Str(<<>>)), Present(Null), Missing, PresentList(<<>>), Missing, Missing,
           PresentList(<<>>))

FullBundle ==
    Bundle(Present(Str(<<"welcome">>)), Present(Str(JSONstringify(<<"1", "2">>))),
           Present(Str(JSONstringify(<<"portrait">>))),
           PresentList(<<Registration(7, "Noa", "050", "beginner", "pending")>>),
           Present(Str(JSONstringify([name |-> "Noa", phone |-> "050"]))),
           Present(Str(JSONstringify(Registration(7, "Noa", "050", "beginner", "pending")))),
           PresentList(<<Material(2, "image", FALSE), Material(1, "text", TRUE),
                         Material(2, "image", TRUE)>>))

BundleFiles ==
    {MalformedFile, JSONFile(EmptyBundle), JSONFile(OnlyMaterialsBundle),
     JSONFile(EmptyValuesBundle), JSONFile(FullBundle)}

----------------------------------------------------------------------------
(* Import / export bookkeeping *)

Paths == {"admin", "student"}

IdleImport == [path |-> "none", phase |-> "idle", file |-> MalformedFile]

\* the files the user can pick in the file dialog: prepared ones and downloaded ones
ImportFiles == BundleFiles \cup {downloads[i] : i \in 1..Len(downloads)}

\* AdminDashboard mount effect, `if (savedRegs) setRegistrations(JSON.parse(savedRegs))`
LoadRegistrations(ls) ==
    IF Truthy(getItem(ls, K_REGISTRATIONS)) THEN getItem(ls, K_REGISTRATIONS).s[1] ELSE <<>>

\* mutant of LoadSetupMode: the login screen always starts in setup mode
LoadSetupModeAlways(ls) == TRUE

\* `saved ? JSON.parse(saved) : [DEFAULT_MESSAGE]` written back by the messages effect
SavedMessages(ls) ==
    IF Truthy(getItem(ls, K_MESSAGES)) THEN getItem(ls, K_MESSAGES).s
    ELSE JSONstringify(<<"DEFAULT_MESSAGE">>)

\* `saved ? JSON.parse(saved) : []` written back by the topics effect
SavedTopics(ls) ==
    IF Truthy(getItem(ls, K_TOPICS)) THEN getItem(ls, K_TOPICS).s
    ELSE JSONstringify(<<>>)

\* LoginScreen mount effect, `setIsSetupMode(!stored)`
LoadSetupMode(ls) == ~Truthy(getItem(ls, K_ADMIN_PASSWORD))

\* App mount effect, `if (storedRole === 'student' || storedRole === 'admin') setUserRole(storedRole)`
LoadUserRole(ls) ==
    IF getItem(ls, K_ROLE) \in {Str(<<"student">>), Str(<<"admin">>)}
    THEN getItem(ls, K_ROLE).s[1] ELSE "none"

----------------------------------------------------------------------------
(* Initial state: first run of the application in a fresh browser profile *)

\* services/firebase: the placeholder the source ships in firebaseConfig.apiKey
PLACEHOLDER_KEY == "YOUR_API_KEY_HERE"

\* the placeholder, and a key pasted by the deployer as the file's comments instruct
ApiKeys == {PLACEHOLDER_KEY, "AIzaSyProLens"}

\* services/firebase.isFirebaseConfigured
isFirebaseConfigured == apiKey # PLACEHOLDER_KEY

\* no processFiles call in flight
IdleBatch ==
    [active |-> FALSE, cloud |-> FALSE, files |-> <<>>, i |-> 1, isAssignment |-> FALSE,
     materials |-> <<>>, newMaterials |-> <<>>]

\* CourseRegistration: isUploading = false
\* no deleteMaterialFromCloud call in flight
IdleDeletion == [phase |-> "idle", id |-> 0, fileUrl |-> DataURL]

\* no AI request in flight
IdleRequest == [active |-> FALSE, cloud |-> FALSE, materials |-> <<>>, toMark |-> <<>>]

\* `useState(null)` of activeQuiz
NoQuiz == [open |-> FALSE, topicId |-> "", quizLoading |-> FALSE]

IdleUpload == [active |-> FALSE, file |-> [name |-> "", size |-> 0, type |-> ""]]

FirstRun ==
    /\ localStorage = [k \in Keys |-> Null]
    /\ localDB = {}
    /\ userRole = "none"
    /\ currentView = "HOME"
    /\ showSyncModal = FALSE
    /\ isSetupMode = TRUE
    /\ registrations = <<>>
    /\ importing = IdleImport
    /\ downloads = <<>>
    /\ lastAlert = "none"
    /\ cloudCalls = {}
    /\ cloudBlobs = {}
    /\ lbPhase = "unmounted"
    /\ isCloudConfigured = FALSE
    /\ materials = <<>>
    /\ batch = IdleBatch
    /\ deletion = IdleDeletion
    /\ request = IdleRequest
    /\ regSubmitted = FALSE
    /\ presDB = {}
    /\ uploading = IdleUpload
    /\ loading = FALSE
    /\ placeholders = 0
    /\ overlapping = <<>>
    /\ completedTopics = <<>>
    /\ activeQuiz = NoQuiz
    /\ quizFeedback = "none"
    /\ timers = <<>>
    /\ unhandled = FALSE
    /\ now = 1

\* the application as the source ships it: the Cloud Mirror is not configured
Init ==
    /\ FirstRun
    /\ apiKey = PLACEHOLDER_KEY
    /\ firebaseDb = FALSE
    /\ cloudDocs = <<>>

\* a document of the collection that holds no blob: the "text guide/link" that the
\* comment of deleteMaterialFromCloud tells apart from a file
LinkMaterial ==
    [id |-> 0, type |-> "text", name |-> "guide", content |-> [host |-> "example.com", path |-> 0],
     isAnalyzed |-> FALSE]

\* the application as deployed: with the placeholder or with a pasted configuration,
\* whose initialisation (the try block of services/firebase) may have thrown; the
\* collection of a configured project is empty or holds a link document
InitDeployed ==
    /\ FirstRun
    /\ apiKey \in ApiKeys
    /\ firebaseDb \in (IF isFirebaseConfigured THEN BOOLEAN ELSE {FALSE})
    /\ cloudDocs \in (IF firebaseDb THEN {<<>>, <<LinkMaterial>>} ELSE {<<>>})

----------------------------------------------------------------------------
(* App: login, logout, navigation *)

MASTER_CODE == "admin1234"

Passwords == {"reset", "creator", MASTER_CODE, "abc", "secret"}

StudentNames == {"N", "Noa"}

Views == {"HOME", "LEARNING_BOX", "REGISTRATION", "ADMIN"}

\* App.handleLogin: the flag writes (the caller assigns userRole' = role)
handleLogin(ls, role, hasData, studentData) ==
    LET ls1 == setItem(ls, K_ROLE, <<role>>)
    IN IF role = "student" /\ hasData
       THEN setItem(ls1, K_PROFILE, JSONstringify(studentData))
       ELSE ls1

\* LoginScreen.handleStudentLogin
handleStudentLogin(name) ==
    /\ userRole = "none"
    /\ IF Len(name) < 2
       THEN UNCHANGED <<userRole, localStorage>>
       ELSE /\ userRole' = "student"
            /\ localStorage' = handleLogin(localStorage, "student", TRUE,
                                           [name |-> name, phone |-> "050"])
    /\ lastAlert' = "none"
    /\ regSubmitted' = (regSubmitted /\ userRole' = "none")
    /\ UNCHANGED <<localDB, currentView, showSyncModal, isSetupMode, registrations,
                   importing, downloads>>
    /\ UNCHANGED <<cloudVars, lbVars, batch, deletion, request, presVars,
                   chatVars, quizVars, unhandled, now>>

\* LoginScreen.handleAdminLogin
handleAdminLogin(password) ==
    /\ userRole = "none"
    /\ IF password = "reset" \/ password = "creator"
       THEN /\ localStorage' = removeItem(localStorage, K_ADMIN_PASSWORD)
            /\ isSetupMode' = TRUE
            /\ UNCHANGED userRole
       ELSE IF password = MASTER_CODE
       THEN /\ localStorage' =
                 handleLogin(setItem(localStorage, K_ADMIN_PASSWORD, <<MASTER_CODE>>),
                             "admin", FALSE, <<>>)
            /\ userRole' = "admin"
            /\ UNCHANGED isSetupMode
       ELSE IF isSetupMode
       THEN IF Len(password) < 4
            THEN UNCHANGED <<userRole, localStorage, isSetupMode>>
            ELSE /\ localStorage' =
                      handleLogin(setItem(localStorage, K_ADMIN_PASSWORD, <<password>>),
                                  "admin", FALSE, <<>>)
                 /\ userRole' = "admin"
                 /\ UNCHANGED isSetupMode
       ELSE IF Str(<<password>>) = getItem(localStorage, K_ADMIN_PASSWORD)
            THEN /\ localStorage' = handleLogin(localStorage, "admin", FALSE, <<>>)
                 /\ userRole' = "admin"
                 /\ UNCHANGED isSetupMode
            ELSE UNCHANGED <<userRole, localStorage, isSetupMode>>
    /\ lastAlert' = "none"
    /\ regSubmitted' = (regSubmitted /\ userRole' = "none")
    /\ UNCHANGED <<localDB, currentView, showSyncModal, registrations,
                   importing, downloads>>
    /\ UNCHANGED <<cloudVars, lbVars, batch, deletion, request, presVars,
                   chatVars, quizVars, unhandled, now>>

\* no asynchronous handler of LearningBox is between two of its awaits
LearningBoxSettled ==
    ~batch.active /\ deletion.phase = "idle" /\ ~request.active /\ overlapping = <<>>

\* LearningBox leaves the screen: its state is discarded
unmountLearningBox ==
    /\ lbPhase' = "unmounted"
    /\ isCloudConfigured' = FALSE
    /\ materials' = <<>>
    /\ loading' = FALSE
    /\ placeholders' = 0
    /\ overlapping' = <<>>
    /\ completedTopics' = <<>>
    /\ activeQuiz' = NoQuiz
    /\ quizFeedback' = "none"
    /\ timers' = <<>>

\* LearningBox enters the screen: `useState([])`, `useState(false)`, effects pending
mountLearningBox ==
    /\ lbPhase' = "rendered"
    /\ isCloudConfigured' = FALSE
    /\ materials' = <<>>
    /\ loading' = FALSE
    /\ placeholders' = 0
    /\ overlapping' = <<>>
    /\ completedTopics' = SavedTopics(localStorage)[1]
    /\ activeQuiz' = NoQuiz
    /\ quizFeedback' = "none"
    /\ timers' = <<>>

\* mutant of handleLogout: the view is not reset to HOME
handleLogoutKeepsView ==
    /\ userRole # "none"
    /\ LearningBoxSettled /\ ~uploading.active
    /\ userRole' = "none"
    /\ localStorage' = removeItem(removeItem(localStorage, K_ROLE), K_PROFILE)
    /\ isSetupMode' = ~Truthy(getItem(localStorage', K_ADMIN_PASSWORD))
    /\ lastAlert' = "none"
    /\ regSubmitted' = FALSE
    /\ UNCHANGED <<localDB, currentView, registrations, showSyncModal, importing, downloads>>
    /\ UNCHANGED <<cloudVars, lbVars, batch, deletion, request, presVars,
                   chatVars, quizVars, unhandled, now>>

\* App.handleLogout; the LoginScreen mounts and its effect reads the stored password
handleLogout ==
    /\ userRole # "none"
    /\ LearningBoxSettled /\ ~uploading.active
    /\ userRole' = "none"
    /\ currentView' = "HOME"
    /\ localStorage' = removeItem(removeItem(localStorage, K_ROLE), K_PROFILE)
    /\ isSetupMode' = LoadSetupMode(localStorage')
    /\ registrations' = <<>>
    /\ lastAlert' = "none"
    /\ unmountLearningBox
    /\ regSubmitted' = FALSE
    /\ UNCHANGED <<localDB, showSyncModal, importing, downloads>>
    /\ UNCHANGED <<cloudVars, batch, deletion, request, presVars, unhandled, now>>

\* App: setCurrentView from the home buttons and the sidebar; the admin entries are
\* rendered only when userRole === 'admin'.  Entering ADMIN mounts AdminDashboard,
\* whose effect loads the stored registrations.
setCurrentView(v) ==
    /\ userRole # "none"
    /\ v = "ADMIN" => userRole = "admin"
    /\ v # currentView
    /\ currentView = "LEARNING_BOX" => LearningBoxSettled
    /\ currentView = "REGISTRATION" => ~uploading.active
    /\ currentView' = v
    /\ registrations' = IF v = "ADMIN" THEN LoadRegistrations(localStorage) ELSE <<>>
    /\ lastAlert' = "none"
    /\ IF v = "LEARNING_BOX" THEN mountLearningBox ELSE unmountLearningBox
    /\ UNCHANGED <<localStorage, localDB, userRole, showSyncModal, isSetupMode,
                   importing, downloads>>
    /\ UNCHANGED <<cloudVars, batch, deletion, request, regSubmitted, presVars,
                   unhandled, now>>

\* App: the sync button (rendered for students and admins) and the modal's close button
setShowSyncModal ==
    /\ userRole # "none"
    /\ showSyncModal' = ~showSyncModal
    /\ lastAlert' = "none"
    /\ UNCHANGED <<localStorage, localDB, userRole, currentView, isSetupMode, registrations,
                   importing, downloads>>
    /\ UNCHANGED <<cloudVars, lbVars, batch, deletion, request, regSubmitted, presVars,
                   chatVars, quizVars, unhandled, now>>

\* window.location.reload(): every component state is rebuilt from the stores
reload(ls) ==
    /\ userRole' = LoadUserRole(ls)
    /\ currentView' = "HOME"
    /\ showSyncModal' = FALSE
    /\ isSetupMode' = LoadSetupMode(ls)
    /\ registrations' = <<>>
    /\ importing' = IdleImport
    /\ unmountLearningBox
    /\ batch' = IdleBatch
    /\ deletion' = IdleDeletion
    /\ request' = IdleRequest
    /\ regSubmitted' = FALSE
    /\ uploading' = IdleUpload
    /\ unhandled' = FALSE
    /\ UNCHANGED <<cloudVars, presDB, now>>

----------------------------------------------------------------------------
(* Sync/Backup Bundle Codec: export *)

AdminDashboardMounted == userRole # "none" /\ currentView = "ADMIN"

StudentSyncModalMounted == userRole # "none" /\ showSyncModal

\* AdminDashboard.handleExportBackup, `const backupData = {...}`
BackupData(ls) ==
    Bundle(Present(getItem(ls, K_ANNOUNCEMENT)),
           Present(getItem(ls, K_MESSAGES)),
           Present(getItem(ls, K_TOPICS)),
           PresentList(LoadRegistrations(ls)),
           Missing, Missing, PresentList(<<>>))

\* StudentSyncModal.handleExport, `const syncData = {...}`
SyncData(ls) ==
    Bundle(Missing,
           Present(getItem(ls, K_MESSAGES)),
           Present(getItem(ls, K_TOPICS)),
           MissingList,
           Present(getItem(ls, K_PROFILE)),
           Present(getItem(ls, K_MY_REGISTRATION)),
           PresentList(<<>>))

\* `backupData.materials = request.result; JSON.stringify(backupData)`
BundleFile(data, store) == JSONFile([data EXCEPT !.materials = PresentList(getAll(store))])

\* AdminDashboard.handleExportBackup
handleExportBackup ==
    /\ AdminDashboardMounted
    /\ \E dbOpens \in BOOLEAN :
         IF dbOpens
         THEN /\ downloads' = <<BundleFile(BackupData(localStorage), localDB)>>
              /\ lastAlert' = "none"
         ELSE /\ lastAlert' = "backup_failed"
              /\ UNCHANGED downloads
    /\ UNCHANGED <<localStorage, localDB, userRole, currentView, showSyncModal, isSetupMode,
                   registrations, importing>>
    /\ UNCHANGED <<cloudVars, lbVars, batch, deletion, request, regSubmitted, presVars,
                   chatVars, quizVars, unhandled, now>>

\* StudentSyncModal.handleExport
handleExport ==
    /\ StudentSyncModalMounted
    /\ \E dbOpens \in BOOLEAN :
         IF dbOpens
         THEN /\ downloads' = <<BundleFile(SyncData(localStorage), localDB)>>
              /\ lastAlert' = "sync_downloaded"
         ELSE /\ lastAlert' = "sync_export_failed"
              /\ UNCHANGED downloads
    /\ UNCHANGED <<localStorage, localDB, userRole, currentView, showSyncModal, isSetupMode,
                   registrations, importing>>
    /\ UNCHANGED <<cloudVars, lbVars, batch, deletion, request, regSubmitted, presVars,
                   chatVars, quizVars, unhandled, now>>

----------------------------------------------------------------------------
(* Sync/Backup Bundle Codec: import *)

\* `if (data.field) localStorage.setItem(key, data.field)`
RestoreFlag(ls, k, field) == IF TruthyField(field) THEN setItem(ls, k, field.v.s) ELSE ls

\* AdminDashboard.handleImportBackup, the flag writes of reader.onload
RestoreBackupFlags(ls, data) ==
    LET ls1 == RestoreFlag(ls, K_ANNOUNCEMENT, data.announcement)
        ls2 == RestoreFlag(ls1, K_MESSAGES, data.messages)
        ls3 == RestoreFlag(ls2, K_TOPICS, data.completedTopics)
    IN IF data.registrations.has
       THEN setItem(ls3, K_REGISTRATIONS, JSONstringify(data.registrations.v))
       ELSE ls3

\* StudentSyncModal.handleImport, the flag writes of reader.onload
RestoreSyncFlags(ls, data) ==
    LET ls1 == RestoreFlag(ls, K_PROFILE, data.profile)
        ls2 == RestoreFlag(ls1, K_MESSAGES, data.messages)
        ls3 == RestoreFlag(ls2, K_TOPICS, data.completedTopics)
        ls4 == RestoreFlag(ls3, K_MY_REGISTRATION, data.myRegistration)
    IN setItem(ls4, K_ROLE, <<"student">>)

\* mutant of RestoreMaterials: the store is not cleared before the puts
RestoreMaterialsNoClear(store, data) ==
    IF data.materials.has
    THEN putAll(store, data.materials.v)
    ELSE store

\* the readwrite transaction of both imports: clear, then put every item of data.materials
RestoreMaterials(store, data) ==
    IF data.materials.has
    THEN putAll(clear(store), data.materials.v)
    ELSE clear(store)

\* handleImportBackup / handleImport up to reader.readAsText(file)
StartImport(p) ==
    /\ importing.phase = "idle"
    /\ \E file \in ImportFiles :
         importing' = [path |-> p, phase |-> "reading", file |-> file]
    /\ lastAlert' = "none"
    /\ UNCHANGED <<localStorage, localDB, userRole, currentView, showSyncModal, isSetupMode,
                   registrations, downloads>>
    /\ UNCHANGED <<cloudVars, lbVars, batch, deletion, request, regSubmitted, presVars,
                   chatVars, quizVars, unhandled, now>>

\* AdminDashboard.handleImportBackup
handleImportBackup == AdminDashboardMounted /\ StartImport("admin")

\* StudentSyncModal.handleImport (the user confirmed the prompt)
handleImport == StudentSyncModalMounted /\ StartImport("student")

\* AdminDashboard.handleImportBackup, reader.onerror
handleImportBackupOnError ==
    /\ importing.path = "admin"
    /\ importing.phase = "reading"
    /\ importing' = IdleImport
    /\ lastAlert' = "read_failed"
    /\ UNCHANGED <<localStorage, localDB, userRole, currentView, showSyncModal, isSetupMode,
                   registrations, downloads>>
    /\ UNCHANGED <<cloudVars, lbVars, batch, deletion, request, regSubmitted, presVars,
                   chatVars, quizVars, unhandled, now>>

\* AdminDashboard.handleImportBackup, reader.onload up to `await openDB()`
handleImportBackupOnLoad ==
    /\ importing.path = "admin"
    /\ importing.phase = "reading"
    /\ LET file == importing.file
       IN IF ~file.ok
          THEN /\ importing' = IdleImport
               /\ lastAlert' = "backup_invalid"
               /\ UNCHANGED <<localStorage, registrations>>
          ELSE /\ localStorage' = RestoreBackupFlags(localStorage, file.json)
               /\ registrations' = IF file.json.registrations.has
                                   THEN file.json.registrations.v ELSE registrations
               /\ importing' = [importing EXCEPT !.phase = "opening"]
               /\ lastAlert' = "none"
    /\ UNCHANGED <<localDB, userRole, currentView, showSyncModal, isSetupMode, downloads>>
    /\ UNCHANGED <<cloudVars, lbVars, batch, deletion, request, regSubmitted, presVars,
                   chatVars, quizVars, unhandled, now>>

\* mutant of handleImportOnLoad: the role is stored before the file is parsed
handleImportOnLoadRoleFirst ==
    /\ importing.path = "student"
    /\ importing.phase = "reading"
    /\ LET file == importing.file
       IN IF ~file.ok
          THEN /\ importing' = IdleImport
               /\ lastAlert' = "sync_invalid"
               /\ localStorage' = setItem(localStorage, K_ROLE, <<"student">>)
          ELSE /\ localStorage' = setItem(localStorage, K_ROLE, <<"student">>)
               /\ importing' = [importing EXCEPT !.phase = "opening"]
               /\ lastAlert' = "none"
    /\ UNCHANGED <<localDB, userRole, currentView, showSyncModal, isSetupMode,
                   registrations, downloads>>
    /\ UNCHANGED <<cloudVars, lbVars, batch, deletion, request, regSubmitted, presVars,
                   chatVars, quizVars, unhandled, now>>

\* StudentSyncModal.handleImport, reader.onload up to `await openDB()`
handleImportOnLoad ==
    /\ importing.path = "student"
    /\ importing.phase = "reading"
    /\ LET file == importing.file
       IN IF ~file.ok
          THEN /\ importing' = IdleImport
               /\ lastAlert' = "sync_invalid"
               /\ UNCHANGED localStorage
          ELSE /\ localStorage' = RestoreSyncFlags(localStorage, file.json)
               /\ importing' = [importing EXCEPT !.phase = "opening"]
               /\ lastAlert' = "none"
    /\ UNCHANGED <<localDB, userRole, currentView, showSyncModal, isSetupMode,
                   registrations, downloads>>
    /\ UNCHANGED <<cloudVars, lbVars, batch, deletion, request, regSubmitted, presVars,
                   chatVars, quizVars, unhandled, now>>

\* the ways the readwrite transaction of an import ends: it commits; openDB or the
\* clear request rejects, which the catch block reports; or a queued put fails later,
\* e.g. on the quota, and the transaction aborts and rolls back, for which neither the
\* request nor the transaction has an error or abort handler
TransactionOutcomes(data) ==
    {"committed", "rejected"}
        \cup (IF data.materials.has /\ data.materials.v # <<>> THEN {"aborted"} ELSE {})

\* reader.onload of both imports from `await openDB()` to the end of the transaction
\* (after an abort isRestoring stays true until the component is mounted again; the
\* next import may start at once here)
ImportTransaction(p, failure) ==
    /\ importing.path = p
    /\ importing.phase = "opening"
    /\ \E outcome \in TransactionOutcomes(importing.file.json) :
         IF outcome = "committed"
         THEN /\ localDB' = RestoreMaterials(localDB, importing.file.json)
              /\ importing' = [importing EXCEPT !.phase = "committed"]
              /\ lastAlert' = "none"
         ELSE /\ importing' = IdleImport
              /\ lastAlert' = IF outcome = "rejected" THEN failure ELSE "none"
              /\ UNCHANGED localDB
    /\ UNCHANGED <<localStorage, userRole, currentView, showSyncModal, isSetupMode,
                   registrations, downloads>>
    /\ UNCHANGED <<cloudVars, lbVars, batch, deletion, request, regSubmitted, presVars,
                   chatVars, quizVars, unhandled, now>>

handleImportBackupTransaction == ImportTransaction("admin", "backup_invalid")

handleImportTransaction == ImportTransaction("student", "sync_invalid")

\* mutant of ReloadReady: the reload does not wait for the transaction
ReloadReadyEarly(p) == importing.path = p /\ importing.phase \in {"opening", "committed"}

\* `tx.oncomplete = ...`, set after the last put: the handler runs when the transaction
\* has committed
ReloadReady(p) == importing.path = p /\ importing.phase = "committed"

\* tx.oncomplete of both imports: the success alert and window.location.reload()
ImportComplete(p, message) ==
    /\ ReloadReady(p)
    /\ lastAlert' = message
    /\ reload(localStorage)
    /\ UNCHANGED <<localStorage, localDB, downloads>>

handleImportBackupComplete == ImportComplete("admin", "restore_done")

handleImportComplete == ImportComplete("student", "sync_done")

----------------------------------------------------------------------------
(* LearningBox: the materials library over the local store or the Cloud Mirror *)

\* bound: the number of registrations and presentations created in a run
MaxClock == 3

\* bound: the number of materials created in a run
MaxMaterials == 2

\* bound: the number of files of one upload batch
MaxBatch == 2

\* processFiles: the local save limit, `15 * 1024 * 1024`
LocalLimit == 15 * 1024 * 1024

File(name, size, type) == [name |-> name, size |-> size, type |-> type]

\* the files the user can pick or drop: a text of exactly 15MB, a video one byte larger
\* and an image of 2MB
UploadFiles ==
    {File("notes.txt", LocalLimit, "text/plain"),
     File("clip.mp4", LocalLimit + 1, "video/mp4"),
     File("photo.jpg", 2 * 1024 * 1024, "image/jpeg")}

\* event.target.files: the batches of one to MaxBatch files
Batches == UNION {[1..n -> UploadFiles] : n \in 1..MaxBatch}

\* the files of the assignment input, `accept="image/*"`
AssignmentBatches == {files \in Batches : \A i \in DOMAIN files : files[i].type = "image/jpeg"}

\* processFiles: `file.type.startsWith('image/') ? 'image' : ... : 'text'`
MaterialType(type) ==
    IF type = "image/jpeg" THEN "image"
    ELSE IF type = "audio/mpeg" THEN "audio"
    ELSE IF type = "video/mp4" THEN "video"
    ELSE "text"

\* processFiles: materialData
LearningMaterial(id, file, content) ==
    [id |-> id, type |-> MaterialType(file.type), name |-> file.name, content |-> content,
     isAnalyzed |-> FALSE]

\* uploadFileToCloud: the download URL of the blob `materials/${Date.now()}_${file.name}`
downloadURL(t) == [host |-> "firebasestorage.googleapis.com", path |-> t]

\* deleteMaterialFromCloud, `fileUrl.includes('firebasestorage')`
includesFirebaseStorage(url) == url.host = "firebasestorage.googleapis.com"

\* processFiles, `'temp_' + Date.now()`: an id that no document of the collection has
TempId(t) == 0 - t

\* mutant of Analyzed: the flag is flipped instead of set
AnalyzedToggled(m) == [m EXCEPT !.isAnalyzed = ~@]

\* `{...m, isAnalyzed: true}`
Analyzed(m) == [m EXCEPT !.isAnalyzed = TRUE]

\* mutant of LoadCloudConfigured: the effect switches cloud mode on whatever the configuration
LoadCloudConfiguredAlways == TRUE

\* mutant of LoadCloudConfigured: a failed initialisation falls back to local mode
LoadCloudConfiguredIfInitialised == isFirebaseConfigured /\ firebaseDb

\* LearningBox load effect, `const configured = isFirebaseConfigured()`
LoadCloudConfigured == isFirebaseConfigured

\* LearningBox: the effects of the mount, run in one flush before any user event:
\* the load effect, the messages effect and the topics effect
LearningBoxEffects ==
    /\ lbPhase = "rendered"
    /\ lbPhase' = "ready"
    /\ isCloudConfigured' = LoadCloudConfigured
    /\ IF LoadCloudConfigured
       THEN UNCHANGED materials
       ELSE \E dbOpens \in BOOLEAN :
              materials' = IF dbOpens THEN getAll(localDB) ELSE materials
    /\ localStorage' = setItem(setItem(localStorage, K_MESSAGES, SavedMessages(localStorage)),
                               K_TOPICS, SavedTopics(localStorage))
    /\ UNCHANGED <<localDB, userRole, currentView, showSyncModal, isSetupMode, registrations,
                   importing, downloads, lastAlert>>
    /\ UNCHANGED <<cloudVars, batch, deletion, request, regSubmitted, presVars,
                   chatVars, quizVars, unhandled, now>>

\* services/firebase.subscribeToMaterials: the listener delivers the collection
onSnapshot ==
    /\ lbPhase = "ready"
    /\ isCloudConfigured
    /\ firebaseDb
    /\ materials' = cloudDocs
    /\ UNCHANGED <<appVars, cloudVars, lbPhase, isCloudConfigured, batch, deletion, request,
                   regSubmitted, presVars, chatVars, quizVars, unhandled, now>>

\* the list `materials` that markMaterialsAsAnalyzed reads from the render that bound
\* it; only its local branch reads it, so that in cloud mode it is not kept
closure(cloud) == IF cloud THEN <<>> ELSE materials

\* LearningBox.processFiles up to the loop: the call captures isCloudConfigured and, for
\* the handleAssignmentSubmission it ends with, the list `materials` of the render that
\* bound the handler (an upload and an AI request are followed one at a time)
processFiles(files, isAssignment) ==
    /\ lbPhase = "ready"
    /\ ~batch.active
    /\ ~request.active
    /\ now + Len(files) <= MaxMaterials + 1
    /\ batch' = [active |-> TRUE, cloud |-> isCloudConfigured, files |-> files, i |-> 1,
                 isAssignment |-> isAssignment,
                 materials |-> IF isAssignment THEN closure(isCloudConfigured) ELSE <<>>,
                 newMaterials |-> <<>>]
    /\ UNCHANGED <<appVars, cloudVars, lbVars, deletion, request, regSubmitted, presVars,
                   chatVars, quizVars, unhandled, now>>

\* mutant of TooBigForLocal: no size limit on the local path
TooBigForLocalNever(file) == FALSE

\* processFiles, `file.size > 15 * 1024 * 1024`
TooBigForLocal(file) == file.size > LocalLimit

\* mutant of UploadsToCloud: an upload is saved locally whatever the mode
UploadsToCloudNever(cloud) == FALSE

\* processFiles, `if (isCloudConfigured)` as the call captured it
UploadsToCloud(cloud) == cloud

\* processFiles: the loop moves to the next file; `newMaterials.push(...)` is kept for the
\* assignment batches, the only ones that read it
nextFile(pushed) ==
    batch' = [batch EXCEPT !.i = @ + 1,
                           !.newMaterials = IF batch.isAssignment THEN @ \o pushed ELSE @]

\* processFiles, the cloud branch for one file: uploadFileToCloud throws when storage is
\* undefined and may fail on the network, and so may addMaterialToCloud after the blob
\* was stored; the list gets the record under a temporary id
processFileCloud(file) ==
    /\ \E outcome \in (IF firebaseDb THEN {"stored", "upload_failed", "add_failed"}
                                     ELSE {"upload_failed"}) :
         /\ cloudCalls' = cloudCalls \cup
                (IF outcome = "upload_failed" THEN {"uploadFileToCloud"}
                 ELSE {"uploadFileToCloud", "addMaterialToCloud"})
         /\ IF outcome = "upload_failed"
            THEN UNCHANGED <<cloudBlobs, cloudDocs, now>>
            ELSE /\ cloudBlobs' = cloudBlobs \cup {downloadURL(now)}
                 /\ cloudDocs' = IF outcome = "stored"
                                 THEN <<LearningMaterial(now, file, downloadURL(now))>>
                                          \o cloudDocs
                                 ELSE cloudDocs
                 /\ now' = now + 1
         /\ nextFile(IF outcome = "stored"
                     THEN <<LearningMaterial(TempId(now), file, downloadURL(now))>>
                     ELSE <<>>)
    /\ UNCHANGED <<apiKey, firebaseDb>>

\* processFiles, the local branch for one file: the size check, then read and save
\* (the read or openDB may fail: the catch skips the file)
processFileLocal(file) ==
    IF TooBigForLocal(file)
    THEN /\ lastAlert' = "too_big_local"
         /\ nextFile(<<>>)
         /\ UNCHANGED <<localDB, materials, now>>
    ELSE /\ UNCHANGED lastAlert
         /\ \E saved \in BOOLEAN :
              IF saved
              THEN /\ localDB' = put(localDB, LearningMaterial(now, file, DataURL))
                   /\ materials' = <<LearningMaterial(now, file, DataURL)>> \o materials
                   /\ now' = now + 1
                   /\ nextFile(<<LearningMaterial(now, file, DataURL)>>)
              ELSE /\ nextFile(<<>>)
                   /\ UNCHANGED <<localDB, materials, now>>

\* LearningBox.processFiles: one iteration of `for (const file of files)`
processFilesStep ==
    /\ batch.active
    /\ batch.i <= Len(batch.files)
    /\ IF UploadsToCloud(batch.cloud)
       THEN /\ processFileCloud(batch.files[batch.i])
            /\ UNCHANGED <<localDB, materials, lastAlert>>
       ELSE /\ processFileLocal(batch.files[batch.i])
            /\ UNCHANGED cloudVars
    /\ UNCHANGED <<localStorage, userRole, currentView, showSyncModal, isSetupMode,
                   registrations, importing, downloads>>
    /\ UNCHANGED <<lbPhase, isCloudConfigured, deletion, request, regSubmitted, presVars,
                   chatVars, quizVars, unhandled>>

\* LearningBox.processFiles after the loop: an assignment batch goes on into
\* handleAssignmentSubmission(topic, newMaterials), which sends the new materials to
\* the AI Gateway
processFilesDone ==
    /\ batch.active
    /\ batch.i > Len(batch.files)
    /\ batch' = IdleBatch
    /\ request' = IF batch.isAssignment
                  THEN [active |-> TRUE, cloud |-> batch.cloud, materials |-> batch.materials,
                        toMark |-> batch.newMaterials]
                  ELSE request
    /\ loading' = (loading \/ batch.isAssignment)
    /\ placeholders' = placeholders + (IF batch.isAssignment THEN 1 ELSE 0)
    /\ UNCHANGED <<appVars, cloudVars, lbVars, deletion, regSubmitted, presVars,
                   overlapping, quizVars, unhandled, now>>

\* mutant of deletesBlob: the blob deletion is attempted whatever the content reference
deletesBlobAlways(fileUrl) == TRUE

\* deleteMaterialFromCloud, `fileUrl && fileUrl.includes('firebasestorage') && storage`
deletesBlob(fileUrl) == includesFirebaseStorage(fileUrl) /\ firebaseDb

\* LearningBox.removeMaterial (the user confirmed); the delete buttons are rendered for
\* the admin only.  In cloud mode the call of deleteMaterialFromCloud throws at once when
\* `db` is undefined and otherwise awaits deleteDoc; in local mode the record leaves
\* the store and the list.
removeMaterial(id, contentUrl) ==
    /\ lbPhase = "ready"
    /\ userRole = "admin"
    /\ deletion.phase = "idle"
    /\ IF isCloudConfigured
       THEN /\ cloudCalls' = cloudCalls \cup {"deleteMaterialFromCloud"}
            /\ IF firebaseDb
               THEN /\ deletion' = [phase |-> "deleteDoc", id |-> id, fileUrl |-> contentUrl]
                    /\ lastAlert' = "none"
               ELSE /\ lastAlert' = "delete_failed"
                    /\ UNCHANGED deletion
            /\ UNCHANGED <<localDB, materials>>
       ELSE /\ \E dbOpens \in BOOLEAN :
                 IF dbOpens
                 THEN /\ localDB' = delete(localDB, id)
                      /\ materials' = SelectSeq(materials, LAMBDA m : m.id # id)
                      /\ lastAlert' = "none"
                 ELSE /\ lastAlert' = "delete_failed"
                      /\ UNCHANGED <<localDB, materials>>
            /\ UNCHANGED <<cloudCalls, deletion>>
    /\ UNCHANGED <<localStorage, userRole, currentView, showSyncModal, isSetupMode,
                   registrations, importing, downloads>>
    /\ UNCHANGED <<apiKey, firebaseDb, cloudDocs, cloudBlobs, lbPhase, isCloudConfigured,
                   batch, request, regSubmitted, presVars, chatVars, quizVars, unhandled, now>>

\* deleteMaterialFromCloud, `await deleteDoc(doc(db, 'materials', id))`: the record is
\* deleted, or the rejection passes through to removeMaterial's catch and its alert
deleteMaterialFromCloudDoc ==
    /\ deletion.phase = "deleteDoc"
    /\ \E deleted \in BOOLEAN :
         IF deleted
         THEN /\ cloudDocs' = SelectSeq(cloudDocs, LAMBDA m : m.id # deletion.id)
              /\ deletion' = IF deletesBlob(deletion.fileUrl)
                             THEN [deletion EXCEPT !.phase = "deleteObject"]
                             ELSE IdleDeletion
              /\ lastAlert' = "none"
         ELSE /\ lastAlert' = "delete_failed"
              /\ deletion' = IdleDeletion
              /\ UNCHANGED cloudDocs
    /\ UNCHANGED <<localStorage, localDB, userRole, currentView, showSyncModal, isSetupMode,
                   registrations, importing, downloads>>
    /\ UNCHANGED <<apiKey, firebaseDb, cloudCalls, cloudBlobs, lbVars, batch, request,
                   regSubmitted, presVars, chatVars, quizVars, unhandled, now>>

\* deleteMaterialFromCloud, `try { await deleteObject(ref(storage, fileUrl)) } catch`:
\* the blob is deleted, or the failure is logged and swallowed
deleteMaterialFromCloudBlob ==
    /\ deletion.phase = "deleteObject"
    /\ \E deleted \in BOOLEAN :
         cloudBlobs' = IF deleted THEN cloudBlobs \ {deletion.fileUrl} ELSE cloudBlobs
    /\ deletion' = IdleDeletion
    /\ lastAlert' = "none"
    /\ UNCHANGED <<localStorage, localDB, userRole, currentView, showSyncModal, isSetupMode,
                   registrations, importing, downloads>>
    /\ UNCHANGED <<apiKey, firebaseDb, cloudDocs, cloudCalls, lbVars, batch, request,
                   regSubmitted, presVars, chatVars, quizVars, unhandled, now>>

\* the records of list with isAnalyzed set on those whose id is in ids
MarkIn(list, ids) ==
    [i \in DOMAIN list |-> IF list[i].id \in ids THEN Analyzed(list[i]) ELSE list[i]]

\* `for (const m of materialsToMark) await saveMaterialToLocalDB({...m, isAnalyzed: true})`
SaveAnalyzed(store, materialsToMark) ==
    putAll(store, [i \in DOMAIN materialsToMark |-> Analyzed(materialsToMark[i])])

\* markMaterialsAsAnalyzed, cloud branch: the records that pass `if (!m.isAnalyzed)`
pendingUpdates(materialsToMark) == SelectSeq(materialsToMark, LAMBDA m : ~m.isAnalyzed)

\* the ids of the first n of them
UpdatedIds(materialsToMark, n) == {pendingUpdates(materialsToMark)[i].id : i \in 1..n}

\* LearningBox.markMaterialsAsAnalyzed as its caller's render bound it: `cloud` and
\* `list` are the isCloudConfigured and the materials of that render.  In cloud mode
\* updateMaterialAnalysis returns at once when `db` is undefined, and a rejected
\* updateDoc ends the loop; updateDoc never creates a missing document.  In local mode
\* openDB rejects in the first saveMaterialToLocalDB or in none.  `resolves` tells
\* whether the promise of the call resolves: it rejects with the rejection of the
\* updateDoc or of the openDB it awaited.
markMaterialsAsAnalyzed(cloud, list, materialsToMark, resolves) ==
    IF cloud
    THEN /\ IF pendingUpdates(materialsToMark) # <<>>
            THEN /\ cloudCalls' = cloudCalls \cup {"updateMaterialAnalysis"}
                 /\ \E n \in (IF firebaseDb THEN 0..Len(pendingUpdates(materialsToMark))
                                             ELSE {0}) :
                      /\ cloudDocs' = MarkIn(cloudDocs, UpdatedIds(materialsToMark, n))
                      /\ resolves = (~firebaseDb \/ n = Len(pendingUpdates(materialsToMark)))
            ELSE /\ resolves
                 /\ UNCHANGED <<cloudDocs, cloudCalls>>
         /\ UNCHANGED <<localDB, materials>>
    ELSE /\ materials' = MarkIn(list, {materialsToMark[i].id : i \in DOMAIN materialsToMark})
         /\ \E dbOpens \in BOOLEAN :
              /\ localDB' = IF dbOpens THEN SaveAnalyzed(localDB, materialsToMark) ELSE localDB
              /\ resolves = (dbOpens \/ materialsToMark = <<>>)
         /\ UNCHANGED <<cloudDocs, cloudCalls>>

\* the record of a request in flight: the mode and the list of the handler's render
\* and the materials it sent
Request(materialsToMark) ==
    [active |-> TRUE, cloud |-> isCloudConfigured,
     materials |-> closure(isCloudConfigured), toMark |-> materialsToMark]

\* the requests that may be in flight beside the first one
MaxOverlapping == 1

\* `setLoading(true)` and `setMessages(prev => [...prev, loadingMsg])`
showPlaceholder ==
    /\ loading' = TRUE
    /\ placeholders' = placeholders + 1

\* the AI request of a handler starts: `await analyzeLearningMaterials(...)` with the
\* materials it sends, the handler keeping the lists of its render
startRequest(materialsToMark) ==
    /\ lbPhase = "ready"
    /\ ~request.active
    /\ ~batch.active
    /\ request' = Request(materialsToMark)
    /\ showPlaceholder
    /\ UNCHANGED <<appVars, cloudVars, lbVars, batch, deletion, regSubmitted, presVars,
                   overlapping, quizVars, unhandled, now>>

\* the same while another request is in flight
startOverlapping(materialsToMark) ==
    /\ lbPhase = "ready"
    /\ request.active
    /\ ~batch.active
    /\ Len(overlapping) < MaxOverlapping
    /\ overlapping' = Append(overlapping, Request(materialsToMark))
    /\ showPlaceholder
    /\ UNCHANGED <<appVars, cloudVars, lbVars, batch, deletion, request, regSubmitted,
                   presVars, quizVars, unhandled, now>>

\* LearningBox.handleSend up to its await, `if (!textToSend.trim() || loading) return`:
\* every material of the list is sent
handleSend == ~loading /\ startRequest(materials)

\* handleSend while a request is in flight and loading is false
handleSendOverlapping == ~loading /\ startOverlapping(materials)

\* LearningBox.handleTopicLearn up to its await: the text materials are sent
handleTopicLearn == startRequest(SelectSeq(materials, LAMBDA m : m.type = "text"))

\* handleTopicLearn while a request is in flight: the button has no `disabled`
handleTopicLearnOverlapping ==
    startOverlapping(SelectSeq(materials, LAMBDA m : m.type = "text"))

\* a handler after its await (analyzeLearningMaterials catches its errors and always
\* returns a text): the placeholders are filtered out of the transcript, then
\* `await markMaterialsAsAnalyzed(...)`, and `setLoading(false)` if that resolved;
\* the handler is async and nothing awaits it, so a rejection is unhandled
afterAwait(req) ==
    /\ placeholders' = 0
    /\ \E resolves \in BOOLEAN :
         /\ markMaterialsAsAnalyzed(req.cloud, req.materials, req.toMark, resolves)
         /\ loading' = (loading /\ ~resolves)
         /\ unhandled' = (unhandled \/ ~resolves)
    /\ UNCHANGED <<localStorage, userRole, currentView, showSyncModal, isSetupMode,
                   registrations, importing, downloads, lastAlert>>
    /\ UNCHANGED <<apiKey, firebaseDb, cloudBlobs, lbPhase, isCloudConfigured, batch,
                   deletion, regSubmitted, presVars, quizVars, now>>

\* handleSend, handleTopicLearn and handleAssignmentSubmission after their await
analyzeLearningMaterialsReturns ==
    /\ request.active
    /\ request' = IdleRequest
    /\ afterAwait(request)
    /\ UNCHANGED overlapping

\* the same for a request that was started while another one was in flight
analyzeLearningMaterialsReturnsOverlapping ==
    /\ overlapping # <<>>
    /\ overlapping' = Tail(overlapping)
    /\ afterAwait(Head(overlapping))
    /\ UNCHANGED request

----------------------------------------------------------------------------
(* LearningBox: the topics and their quiz *)

\* the ids of two of the topic cards
TOPICS == {"dslr-structure", "portrait"}

\* the correct answers whose timers may be pending together
MaxTimers == 2

\* Array.prototype.includes
includes(list, x) == \E i \in DOMAIN list : list[i] = x

\* LearningBox.toggleTopicCompletion, the updater of setCompletedTopics
toggleTopicCompletion(prev, id) ==
    IF includes(prev, id) THEN SelectSeq(prev, LAMBDA t : t # id) ELSE Append(prev, id)

\* what the quiz actions leave alone
quizFrame ==
    UNCHANGED <<localDB, userRole, currentView, showSyncModal, isSetupMode, registrations,
                importing, downloads, lastAlert, cloudVars, lbVars, batch, deletion,
                request, regSubmitted, presVars, chatVars, unhandled, now>>

\* the topics effect: `localStorage.setItem('prolens_completed_topics', ...)` after a
\* render that changed completedTopics
saveTopics ==
    localStorage' = IF completedTopics' # completedTopics
                    THEN setItem(localStorage, K_TOPICS, JSONstringify(completedTopics'))
                    ELSE localStorage

\* LearningBox.startQuiz up to its await, from the two quiz buttons of a topic card;
\* the card's round button calls it when the topic is not completed.  The cards are
\* under the quiz modal while a quiz is open.
startQuiz(topicId) ==
    /\ lbPhase = "ready"
    /\ ~activeQuiz.open
    /\ activeQuiz' = [open |-> TRUE, topicId |-> topicId, quizLoading |-> TRUE]
    /\ quizFeedback' = "none"
    /\ UNCHANGED <<localStorage, completedTopics, timers>>
    /\ quizFrame

\* startQuiz after its await: generateQuizQuestion catches its errors and always
\* returns a question, whose correct answer is one of its options
generateQuizQuestionReturns ==
    /\ activeQuiz.open /\ activeQuiz.quizLoading
    /\ activeQuiz' = [activeQuiz EXCEPT !.quizLoading = FALSE]
    /\ UNCHANGED <<localStorage, completedTopics, quizFeedback, timers>>
    /\ quizFrame

\* LearningBox.handleQuizAnswer; the options are disabled once quizFeedback is set.
\* The timer keeps the completedTopics and the activeQuiz of the handler's render.
handleQuizAnswer(correct) ==
    /\ activeQuiz.open /\ ~activeQuiz.quizLoading
    /\ quizFeedback = "none"
    /\ IF correct
       THEN /\ Len(timers) < MaxTimers
            /\ quizFeedback' = "correct"
            /\ timers' = Append(timers, [topicId |-> activeQuiz.topicId,
                                         completedTopics |-> completedTopics])
       ELSE /\ quizFeedback' = "incorrect"
            /\ UNCHANGED timers
    /\ UNCHANGED <<localStorage, completedTopics, activeQuiz>>
    /\ quizFrame

\* the link under a wrong answer, `onClick={() => setQuizFeedback(null)}`
retryQuiz ==
    /\ activeQuiz.open
    /\ quizFeedback = "incorrect"
    /\ quizFeedback' = "none"
    /\ UNCHANGED <<localStorage, completedTopics, activeQuiz, timers>>
    /\ quizFrame

\* LearningBox.closeQuiz; the modal shows no button while the question is loading
closeQuiz ==
    /\ activeQuiz.open /\ ~activeQuiz.quizLoading
    /\ activeQuiz' = NoQuiz
    /\ quizFeedback' = "none"
    /\ UNCHANGED <<localStorage, completedTopics, timers>>
    /\ quizFrame

\* the callback of handleQuizAnswer's setTimeout(..., 1000); timers of one delay fire
\* in the order they were set
handleQuizAnswerTimeout ==
    /\ timers # <<>>
    /\ timers' = Tail(timers)
    /\ completedTopics' =
           IF ~includes(Head(timers).completedTopics, Head(timers).topicId)
           THEN toggleTopicCompletion(completedTopics, Head(timers).topicId)
           ELSE completedTopics
    /\ saveTopics
    /\ UNCHANGED <<activeQuiz, quizFeedback>>
    /\ quizFrame

\* the round button of a completed topic's card: `if (isCompleted)
\* toggleTopicCompletion(topic.id)`
uncheckTopic(topicId) ==
    /\ lbPhase = "ready"
    /\ ~activeQuiz.open
    /\ includes(completedTopics, topicId)
    /\ completedTopics' = toggleTopicCompletion(completedTopics, topicId)
    /\ saveTopics
    /\ UNCHANGED <<activeQuiz, quizFeedback, timers>>
    /\ quizFrame

\* handleResetProgress, `if (!isCloudConfigured && window.confirm(...))`: the handler
\* awaits openDB outside any try block, so its rejection is unhandled and neither the
\* store nor the list is cleared
resetFiles(clearFiles, dbOpens) ==
    IF ~isCloudConfigured /\ clearFiles
    THEN IF dbOpens
         THEN /\ localDB' = clear(localDB)
              /\ materials' = <<>>
              /\ UNCHANGED unhandled
         ELSE /\ unhandled' = TRUE
              /\ UNCHANGED <<localDB, materials>>
    ELSE /\ dbOpens
         /\ UNCHANGED <<localDB, materials, unhandled>>

\* LearningBox.handleResetProgress (the user confirmed the first prompt, and the
\* second one, which local mode shows, when clearFiles); the state
\* setters make the messages effect and the topics effect write the defaults back
handleResetProgress(clearFiles) ==
    /\ lbPhase = "ready"
    /\ localStorage' = setItem(setItem(localStorage, K_MESSAGES,
                                       JSONstringify(<<"DEFAULT_MESSAGE">>)),
                               K_TOPICS, JSONstringify(<<>>))
    /\ placeholders' = 0
    /\ completedTopics' = <<>>
    /\ \E dbOpens \in BOOLEAN : resetFiles(clearFiles, dbOpens)
    /\ UNCHANGED <<userRole, currentView, showSyncModal, isSetupMode, registrations,
                   importing, downloads, lastAlert>>
    /\ UNCHANGED <<cloudVars, lbPhase, isCloudConfigured, batch, deletion, request,
                   regSubmitted, presVars, loading, overlapping, activeQuiz, quizFeedback,
                   timers, now>>

----------------------------------------------------------------------------
(* Registration list: self-registration (LoginScreen) and the admin's table *)

\* the phone numbers typed into the self-registration form
Phones == {"050", "052"}

\* the names typed into the self-registration form (the field is `required`)
RegNames == {"Noa"}

\* the name and phone fields of the manual form, which may be left empty
ManualNames == {"", "Dana"}

ManualPhones == {"", "050"}

\* the number of entries of list with this phone
CountPhone(list, phone) == Cardinality({i \in DOMAIN list : list[i].phone = phone})

\* mutant of SelfRegistrationWrite: the entry is appended without the phone check
SelfRegistrationWriteAlways(ls, newReg) ==
    setItem(ls, K_REGISTRATIONS, JSONstringify(Append(LoadRegistrations(ls), newReg)))

\* handleRegistration, step 2: append to the stored list unless the phone is in it
SelfRegistrationWrite(ls, newReg) ==
    LET existingRegs == LoadRegistrations(ls)
    IN IF ~\E i \in DOMAIN existingRegs : existingRegs[i].phone = newReg.phone
       THEN setItem(ls, K_REGISTRATIONS, JSONstringify(Append(existingRegs, newReg)))
       ELSE ls

\* LoginScreen.handleRegistration; the form is replaced by the confirmation once submitted
handleRegistration(name, phone) ==
    /\ userRole = "none"
    /\ ~regSubmitted
    /\ now <= MaxClock
    /\ LET newReg == Registration(now, name, phone, "beginner", "pending")
       IN localStorage' =
              SelfRegistrationWrite(
                  setItem(localStorage, K_MY_REGISTRATION, JSONstringify(newReg)), newReg)
    /\ regSubmitted' = TRUE
    /\ now' = now + 1
    /\ UNCHANGED <<localDB, userRole, currentView, showSyncModal, isSetupMode, registrations,
                   importing, downloads, lastAlert>>
    /\ UNCHANGED <<cloudVars, lbVars, batch, deletion, request, presVars,
                   chatVars, quizVars, unhandled>>

\* mutant of ManualRegistrationList: the manual path drops an entry whose phone exists
ManualRegistrationListDedup(regs, newReg) ==
    IF \E i \in DOMAIN regs : regs[i].phone = newReg.phone THEN regs ELSE Append(regs, newReg)

\* addManualRegistration, `const updatedRegs = [...registrations, newReg]`
ManualRegistrationList(regs, newReg) == Append(regs, newReg)

\* AdminDashboard.addManualRegistration
addManualRegistration(name, phone) ==
    /\ AdminDashboardMounted
    /\ now <= MaxClock
    /\ IF name = "" \/ phone = ""
       THEN /\ lastAlert' = "name_phone_required"
            /\ UNCHANGED <<registrations, localStorage, now>>
       ELSE /\ registrations' =
                 ManualRegistrationList(registrations,
                                        Registration(now, name, phone, "manual", "pending"))
            /\ localStorage' = setItem(localStorage, K_REGISTRATIONS,
                                       JSONstringify(registrations'))
            /\ now' = now + 1
            /\ lastAlert' = "student_added"
    /\ UNCHANGED <<localDB, userRole, currentView, showSyncModal, isSetupMode,
                   importing, downloads>>
    /\ UNCHANGED <<cloudVars, lbVars, batch, deletion, request, regSubmitted, presVars,
                   chatVars, quizVars, unhandled>>

\* the write both table operations end with: setRegistrations and localStorage.setItem
SaveRegistrations(updatedRegs, message) ==
    /\ AdminDashboardMounted
    /\ registrations' = updatedRegs
    /\ localStorage' = setItem(localStorage, K_REGISTRATIONS, JSONstringify(updatedRegs))
    /\ lastAlert' = message
    /\ UNCHANGED <<localDB, userRole, currentView, showSyncModal, isSetupMode,
                   importing, downloads>>
    /\ UNCHANGED <<cloudVars, lbVars, batch, deletion, request, regSubmitted, presVars,
                   chatVars, quizVars, unhandled, now>>

\* LoginScreen.handleRegistration submitted in a second tab of the same browser: the
\* two tabs share localStorage and nothing else, so this tab's component state (the
\* dashboard's `registrations` among it) is left as it was
handleRegistrationInSecondTab(name, phone) ==
    /\ now <= MaxClock
    /\ LET newReg == Registration(now, name, phone, "beginner", "pending")
       IN localStorage' =
              SelfRegistrationWrite(
                  setItem(localStorage, K_MY_REGISTRATION, JSONstringify(newReg)), newReg)
    /\ now' = now + 1
    /\ UNCHANGED <<localDB, userRole, currentView, showSyncModal, isSetupMode, registrations,
                   importing, downloads, lastAlert>>
    /\ UNCHANGED <<cloudVars, lbVars, batch, deletion, request, regSubmitted, presVars,
                   chatVars, quizVars, unhandled>>

\* mutant of deleteRegistration: the list is read from the store when the button is clicked
deleteRegistrationStored(id) ==
    SaveRegistrations(SelectSeq(LoadRegistrations(localStorage), LAMBDA r : r.id # id), "none")

\* AdminDashboard.deleteRegistration (the user confirmed)
deleteRegistration(id) ==
    SaveRegistrations(SelectSeq(registrations, LAMBDA r : r.id # id), "none")

\* mutant of Contacted: the contact action marks every entry of the list
ContactedAll(regs, id) == [i \in DOMAIN regs |-> [regs[i] EXCEPT !.status = "contacted"]]

\* `registrations.map(r => r.id === reg.id ? {...r, status: 'contacted'} : r)`
Contacted(regs, id) ==
    [i \in DOMAIN regs |-> IF regs[i].id = id THEN [regs[i] EXCEPT !.status = "contacted"]
                                              ELSE regs[i]]

\* AdminDashboard.sendWelcomeEmail
sendWelcomeEmail(id) == SaveRegistrations(Contacted(registrations, id), "none")

\* AdminDashboard.sendWelcomeWhatsApp
sendWelcomeWhatsApp(id) == SaveRegistrations(Contacted(registrations, id), "whatsapp_opened")

----------------------------------------------------------------------------
(* CourseRegistration: the presentations store *)

\* handleFileChange: the presentation limit, `50 * 1024 * 1024`
PresentationLimit == 50 * 1024 * 1024

\* the files the user can pick: one of exactly 50MB, one a byte larger, one of 20MB
PresentationFiles ==
    {File("deck.pdf", PresentationLimit, "application/pdf"),
     File("huge.pdf", PresentationLimit + 1, "application/pdf"),
     File("slides.pdf", 20 * 1024 * 1024, "application/pdf")}

\* handleFileChange: newDoc
PresentationDoc(id, file) ==
    [id |-> id, name |-> file.name, type |-> file.type, content |-> "data:base64"]

\* mutant of PresentationTooBig: a file of exactly the limit is refused as well
PresentationTooBigAtLimit(file) == file.size >= PresentationLimit

\* handleFileChange, `file.size > 50 * 1024 * 1024`
PresentationTooBig(file) == file.size > PresentationLimit

\* CourseRegistration.handleFileChange up to reader.readAsDataURL(file); the input is
\* disabled while isUploading
handleFileChange(file) ==
    /\ userRole # "none"
    /\ currentView = "REGISTRATION"
    /\ ~uploading.active
    /\ now <= MaxClock
    /\ IF PresentationTooBig(file)
       THEN /\ lastAlert' = "presentation_too_big"
            /\ UNCHANGED uploading
       ELSE /\ uploading' = [active |-> TRUE, file |-> file]
            /\ lastAlert' = "none"
    /\ UNCHANGED <<localStorage, localDB, userRole, currentView, showSyncModal, isSetupMode,
                   registrations, importing, downloads>>
    /\ UNCHANGED <<cloudVars, lbVars, batch, deletion, request, regSubmitted, presDB, now>>
    /\ UNCHANGED <<chatVars, quizVars, unhandled>>

\* CourseRegistration.handleFileChange, reader.onload: saveToDB commits or rejects.
\* The id is Date.now(): the uploads of the component are sequential and the next pick
\* of the user takes longer than the resolution of the clock.
handleFileChangeOnLoad ==
    /\ uploading.active
    /\ \E saved \in BOOLEAN :
         IF saved
         THEN /\ presDB' = put(presDB, PresentationDoc(now, uploading.file))
              /\ now' = now + 1
              /\ lastAlert' = "none"
         ELSE /\ lastAlert' = "presentation_save_failed"
              /\ UNCHANGED <<presDB, now>>
    /\ uploading' = IdleUpload
    /\ UNCHANGED <<localStorage, localDB, userRole, currentView, showSyncModal, isSetupMode,
                   registrations, importing, downloads>>
    /\ UNCHANGED <<cloudVars, lbVars, batch, deletion, request, regSubmitted>>
    /\ UNCHANGED <<chatVars, quizVars, unhandled>>

\* CourseRegistration.handleFileChange, reader.onerror
handleFileChangeOnError ==
    /\ uploading.active
    /\ uploading' = IdleUpload
    /\ lastAlert' = "presentation_read_failed"
    /\ UNCHANGED <<localStorage, localDB, userRole, currentView, showSyncModal, isSetupMode,
                   registrations, importing, downloads>>
    /\ UNCHANGED <<cloudVars, lbVars, batch, deletion, request, regSubmitted, presDB, now>>
    /\ UNCHANGED <<chatVars, quizVars, unhandled>>

\* CourseRegistration.handleDelete (the user confirmed)
handleDelete(id) ==
    /\ userRole # "none"
    /\ currentView = "REGISTRATION"
    /\ \E deleted \in BOOLEAN :
         IF deleted
         THEN /\ presDB' = delete(presDB, id)
              /\ lastAlert' = "none"
         ELSE /\ lastAlert' = "presentation_delete_failed"
              /\ UNCHANGED presDB
    /\ UNCHANGED <<localStorage, localDB, userRole, currentView, showSyncModal, isSetupMode,
                   registrations, importing, downloads>>
    /\ UNCHANGED <<cloudVars, lbVars, batch, deletion, request, regSubmitted, uploading, now>>
    /\ UNCHANGED <<chatVars, quizVars, unhandled>>

----------------------------------------------------------------------------
(* Specifications *)

NextSync ==
    \/ handleStudentLogin("Noa")
    \/ handleAdminLogin(MASTER_CODE)
    \/ handleLogout
    \/ \E v \in {"HOME", "ADMIN"} : setCurrentView(v)
    \/ setShowSyncModal
    \/ handleExportBackup
    \/ handleExport
    \/ handleImportBackup
    \/ handleImportBackupOnError
    \/ handleImportBackupOnLoad
    \/ handleImportBackupTransaction
    \/ handleImportBackupComplete
    \/ handleImport
    \/ handleImportOnLoad
    \/ handleImportTransaction
    \/ handleImportComplete

SpecSync == Init /\ [][NextSync]_vars

\* the two imports alone, driven by a student and an admin
NextImport ==
    \/ handleStudentLogin("Noa")
    \/ handleAdminLogin(MASTER_CODE)
    \/ handleLogout
    \/ \E v \in {"HOME", "ADMIN"} : setCurrentView(v)
    \/ setShowSyncModal
    \/ handleImportBackup
    \/ handleImportBackupOnError
    \/ handleImportBackupOnLoad
    \/ handleImportBackupTransaction
    \/ handleImportBackupComplete
    \/ handleImport
    \/ handleImportOnLoad
    \/ handleImportTransaction
    \/ handleImportComplete

SpecImport == Init /\ [][NextImport]_vars

\* tx.oncomplete is dispatched once the transaction has committed
SpecImportFair ==
    /\ SpecImport
    /\ WF_vars(handleImportBackupComplete)
    /\ WF_vars(handleImportComplete)

\* the LearningBox of a deployed application, driven by an admin
NextLearningBox ==
    \/ handleAdminLogin(MASTER_CODE)
    \/ \E v \in {"HOME", "LEARNING_BOX"} : setCurrentView(v)
    \/ LearningBoxEffects
    \/ onSnapshot
    \/ \E files \in Batches : processFiles(files, FALSE)
    \/ \E files \in AssignmentBatches : processFiles(files, TRUE)
    \/ processFilesStep
    \/ processFilesDone
    \/ \E i \in DOMAIN materials : removeMaterial(materials[i].id, materials[i].content)
    \/ deleteMaterialFromCloudDoc
    \/ deleteMaterialFromCloudBlob
    \/ handleSend
    \/ handleTopicLearn
    \/ analyzeLearningMaterialsReturns
    \/ \E clearFiles \in BOOLEAN : handleResetProgress(clearFiles)

SpecLearningBox == InitDeployed /\ [][NextLearningBox]_vars

\* the quiz of a topic card: a student answers, a timer completes the topic
NextQuiz ==
    \/ handleStudentLogin("Noa")
    \/ \E v \in {"HOME", "LEARNING_BOX"} : setCurrentView(v)
    \/ LearningBoxEffects
    \/ \E topicId \in TOPICS : startQuiz(topicId)
    \/ generateQuizQuestionReturns
    \/ \E correct \in BOOLEAN : handleQuizAnswer(correct)
    \/ retryQuiz
    \/ closeQuiz
    \/ handleQuizAnswerTimeout
    \/ \E topicId \in TOPICS : uncheckTopic(topicId)

SpecQuiz == Init /\ [][NextQuiz]_vars

\* the chat of the LearningBox: the send box and the topic cards, whose buttons stay
\* enabled while a request is in flight
NextChat ==
    \/ \E name \in StudentNames : handleStudentLogin(name)
    \/ handleAdminLogin(MASTER_CODE)
    \/ \E v \in {"HOME", "LEARNING_BOX"} : setCurrentView(v)
    \/ LearningBoxEffects
    \/ onSnapshot
    \/ handleSend
    \/ handleSendOverlapping
    \/ handleTopicLearn
    \/ handleTopicLearnOverlapping
    \/ analyzeLearningMaterialsReturns
    \/ analyzeLearningMaterialsReturnsOverlapping

SpecChat == InitDeployed /\ [][NextChat]_vars

\* the registration list, driven by visitors of the login screen and by an admin
NextRegistration ==
    \/ handleAdminLogin(MASTER_CODE)
    \/ handleLogout
    \/ \E v \in {"HOME", "ADMIN"} : setCurrentView(v)
    \/ \E name \in RegNames, phone \in Phones : handleRegistration(name, phone)
    \/ \E name \in ManualNames, phone \in ManualPhones : addManualRegistration(name, phone)
    \/ \E i \in DOMAIN registrations : deleteRegistration(registrations[i].id)
    \/ \E i \in DOMAIN registrations : sendWelcomeEmail(registrations[i].id)
    \/ \E i \in DOMAIN registrations : sendWelcomeWhatsApp(registrations[i].id)

SpecRegistration == Init /\ [][NextRegistration]_vars

\* the registration list with a second tab open on the login screen
NextTabs ==
    \/ NextRegistration
    \/ \E name \in RegNames, phone \in Phones : handleRegistrationInSecondTab(name, phone)

SpecTabs == Init /\ [][NextTabs]_vars

\* the admin's dashboard: the registrations table and the backup import
NextAdminSurface ==
    \/ handleAdminLogin(MASTER_CODE)
    \/ handleLogout
    \/ \E v \in {"HOME", "ADMIN"} : setCurrentView(v)
    \/ \E name \in ManualNames, phone \in ManualPhones : addManualRegistration(name, phone)
    \/ \E i \in DOMAIN registrations : deleteRegistration(registrations[i].id)
    \/ \E i \in DOMAIN registrations : sendWelcomeEmail(registrations[i].id)
    \/ \E i \in DOMAIN registrations : sendWelcomeWhatsApp(registrations[i].id)
    \/ handleImportBackup
    \/ handleImportBackupOnError
    \/ handleImportBackupOnLoad
    \/ handleImportBackupTransaction
    \/ handleImportBackupComplete

SpecAdminSurface == Init /\ [][NextAdminSurface]_vars

\* the App shell: every login, the navigation, the logout and the student's import,
\* which ends with a reload
NextApp ==
    \/ \E name \in StudentNames : handleStudentLogin(name)
    \/ \E password \in Passwords : handleAdminLogin(password)
    \/ handleLogout
    \/ \E v \in Views : setCurrentView(v)
    \/ LearningBoxEffects
    \/ setShowSyncModal
    \/ handleImport
    \/ handleImportOnLoad
    \/ handleImportTransaction
    \/ handleImportComplete

SpecApp == Init /\ [][NextApp]_vars

\* the presentations screen, driven by a logged-in user
NextPresentations ==
    \/ handleStudentLogin("Noa")
    \/ handleAdminLogin(MASTER_CODE)
    \/ handleLogout
    \/ \E v \in {"HOME", "REGISTRATION"} : setCurrentView(v)
    \/ \E file \in PresentationFiles : handleFileChange(file)
    \/ handleFileChangeOnLoad
    \/ handleFileChangeOnError
    \/ \E doc \in presDB : handleDelete(doc.id)

SpecPresentations == Init /\ [][NextPresentations]_vars

\* the two local document stores, driven by an admin: local uploads, AI requests,
\* deletes, a backup import and the presentations screen; the admin stays on the
\* dashboard until an import has ended
NextStores ==
    \/ handleAdminLogin(MASTER_CODE)
    \/ /\ importing.phase = "idle"
       /\ \E v \in {"HOME", "LEARNING_BOX", "REGISTRATION", "ADMIN"} : setCurrentView(v)
    \/ LearningBoxEffects
    \/ \E files \in Batches : processFiles(files, FALSE)
    \/ processFilesStep
    \/ processFilesDone
    \/ \E i \in DOMAIN materials : removeMaterial(materials[i].id, materials[i].content)
    \/ handleSend
    \/ analyzeLearningMaterialsReturns
    \/ handleImportBackup
    \/ handleImportBackupOnLoad
    \/ handleImportBackupTransaction
    \/ handleImportBackupComplete
    \/ \E file \in PresentationFiles : handleFileChange(file)
    \/ handleFileChangeOnLoad
    \/ \E doc \in presDB : handleDelete(doc.id)

SpecStores == Init /\ [][NextStores]_vars

----------------------------------------------------------------------------
(* Properties of the bundle codec *)

\* the step of the in-flight import of path p that runs reader.onload on a well-formed file
OnLoadStep(p) ==
    /\ importing.path = p
    /\ importing.phase = "reading"
    /\ importing'.phase = "opening"

\* a bundle with a materials list and no flag field
OnlyMaterials(data) ==
    /\ data.materials.has
    /\ ~data.announcement.has /\ ~data.messages.has /\ ~data.completedTopics.has
    /\ ~data.registrations.has /\ ~data.profile.has /\ ~data.myRegistration.has

\* C1: importing a bundle that holds only a materials list, through either path,
\* leaves the value or absence of every flag as it was: no step of such an import
\* changes the Key-Value flag store.
ImportOnlyMaterialsKeepsFlags ==
    [][(importing.phase # "idle" /\ importing' # importing /\ OnlyMaterials(importing.file.json))
         => localStorage' = localStorage]_vars

\* the materials field of a bundle as a list (absent counts as empty)
MaterialsOf(data) == IF data.materials.has THEN data.materials.v ELSE <<>>

\* store holds exactly the records of list, keyed by id (a later item replaces an earlier one)
HoldsExactly(store, list) ==
    /\ {r.id : r \in store} = {list[i].id : i \in DOMAIN list}
    /\ \A r \in store :
         \E i \in DOMAIN list :
            /\ list[i] = r
            /\ \A j \in DOMAIN list : list[j].id = r.id => j <= i
    /\ Cardinality(store) = Cardinality({list[i].id : i \in DOMAIN list})

\* C2: when the transaction of an import has committed, the materials store holds
\* exactly the records of the bundle's materials list keyed by id, and is empty when
\* that list is absent or empty.
ImportReplacesStore ==
    importing.phase = "committed"
        => /\ HoldsExactly(localDB, MaterialsOf(importing.file.json))
           /\ MaterialsOf(importing.file.json) = <<>> => localDB = {}

\* C2 witness: an import of a bundle without materials has committed on a device whose
\* store was not empty before (the earlier export captured its records).
ImportReplacesStoreWitness ==
    /\ importing.phase = "committed"
    /\ MaterialsOf(importing.file.json) = <<>>
    /\ localDB = {}
    /\ downloads # <<>>
    /\ importing.file # downloads[1]
    /\ MaterialsOf(downloads[1].json) # <<>>

\* the file the export of path p produces from the current state
ExportOf(p) ==
    IF p = "admin"
    THEN BundleFile(BackupData(localStorage), localDB)
    ELSE BundleFile(SyncData(localStorage), localDB)

\* C3: export followed by import of the exported bundle changes neither getAll() nor
\* any flag: every step of an import whose file is the export of the current state
\* leaves the flag store and the materials store as they are.
ExportImportIdempotent ==
    [][(importing.phase # "idle" /\ importing' # importing
          /\ importing.file = ExportOf(importing.path))
         => (localStorage' = localStorage /\ getAll(localDB') = getAll(localDB))]_vars

AdminFlagFields ==
    {<<K_ANNOUNCEMENT, "announcement">>, <<K_MESSAGES, "messages">>,
     <<K_TOPICS, "completedTopics">>}

StudentFlagFields ==
    {<<K_PROFILE, "profile">>, <<K_MESSAGES, "messages">>,
     <<K_TOPICS, "completedTopics">>, <<K_MY_REGISTRATION, "myRegistration">>}

FlagFields(p) == IF p = "admin" THEN AdminFlagFields ELSE StudentFlagFields

\* C4: reader.onload of an import overwrites the flag of every recognized field that is
\* present in the bundle with the bundle's value: a string, the empty string included,
\* or (registrations of an admin backup) a list, the empty list included.
ImportOverwritesPresentFlags ==
    [][\A p \in Paths : OnLoadStep(p) =>
          /\ \A kf \in FlagFields(p) :
               LET field == importing.file.json[kf[2]]
               IN (field.has /\ ~field.v.null) => localStorage'[kf[1]] = field.v
          /\ (p = "admin" /\ importing.file.json.registrations.has)
               => localStorage'[K_REGISTRATIONS]
                    = Str(JSONstringify(importing.file.json.registrations.v))]_vars

----------------------------------------------------------------------------
(* Properties of the LearningBox *)

\* C5: in a deployment where isFirebaseConfigured() is false, in every reachable state
\* (the states between the mount of the LearningBox and its first effect included)
\* cloud mode is off, no Cloud Mirror write function has been called and the Cloud
\* Mirror holds nothing: uploads, removals and marks have gone to the local store only.
LocalModeNeverCallsCloud ==
    ~isFirebaseConfigured => (~isCloudConfigured /\ cloudCalls = {} /\ cloudDocs = <<>>)

\* C5 witness: without a configuration, a material was uploaded and marked analyzed in
\* the local store, another one was created and removed, and no cloud write was called.
LocalModeWitness ==
    /\ ~isFirebaseConfigured
    /\ lbPhase = "ready"
    /\ \E m \in localDB : m.isAnalyzed
    /\ Cardinality(localDB) < now - 1
    /\ cloudCalls = {}

\* a step of one of the material write paths of the LearningBox
LearningBoxWrite ==
    \/ processFilesStep
    \/ \E i \in DOMAIN materials : removeMaterial(materials[i].id, materials[i].content)
    \/ deleteMaterialFromCloudDoc
    \/ deleteMaterialFromCloudBlob
    \/ analyzeLearningMaterialsReturns

\* C6: with cloud mode active, a step of upload, delete or mark-analyzed leaves the local
\* materials store and the in-memory list as they are and calls the Cloud Mirror, and a
\* step that changes the in-memory list of the mounted LearningBox is a snapshot delivery.
CloudModeSupersedesLocal ==
    [][isCloudConfigured =>
         /\ LearningBoxWrite => (localDB' = localDB /\ materials' = materials)
         /\ processFilesStep => "uploadFileToCloud" \in cloudCalls'
         /\ (\E i \in DOMAIN materials :
                 removeMaterial(materials[i].id, materials[i].content))
               => "deleteMaterialFromCloud" \in cloudCalls'
         /\ (analyzeLearningMaterialsReturns
                 /\ \E i \in DOMAIN request.toMark : ~request.toMark[i].isAnalyzed)
               => "updateMaterialAnalysis" \in cloudCalls'
         /\ (isCloudConfigured' /\ materials' # materials) => onSnapshot]_vars

\* C6 witness: in cloud mode files were uploaded, one was removed and one marked, the
\* list shows the snapshot of the collection and the local store was never written.
CloudModeWitness ==
    /\ isCloudConfigured
    /\ cloudCalls = {"uploadFileToCloud", "addMaterialToCloud", "deleteMaterialFromCloud",
                     "updateMaterialAnalysis"}
    /\ cloudDocs # <<>>
    /\ materials = cloudDocs
    /\ \E i \in DOMAIN materials : materials[i].isAnalyzed
    /\ Len(cloudDocs) < now - 1
    /\ localDB = {}

\* C9: in local mode the iteration of processFiles over a file larger than 15MB shows
\* the size-limit message and leaves the local materials store and the in-memory list
\* unchanged, and the loop goes on to the next file of the batch.
LocalUploadOverLimitRejected ==
    [][(processFilesStep /\ ~batch.cloud /\ batch.files[batch.i].size > LocalLimit)
         => /\ lastAlert' = "too_big_local"
            /\ localDB' = localDB
            /\ materials' = materials
            /\ batch'.active
            /\ batch'.files = batch.files
            /\ batch'.i = batch.i + 1]_vars

\* C9 witness: a batch whose first file is over the limit and whose second file is
\* exactly 15MB has been processed: the first was refused, the second is in the store
\* and at the head of the list.
LocalUploadOverLimitWitness ==
    /\ batch.active
    /\ ~batch.cloud
    /\ Len(batch.files) = 2
    /\ batch.i = 3
    /\ batch.files[1].size > LocalLimit
    /\ batch.files[2].size = LocalLimit
    /\ lastAlert = "too_big_local"
    /\ materials # <<>>
    /\ materials[1].name = batch.files[2].name
    /\ materials[1] \in localDB

----------------------------------------------------------------------------
(* Properties of the registration list and of the presentations store *)

\* the stored registrations list
StoredRegistrations(ls) == LoadRegistrations(ls)

ManualRegistrationNeverDedups ==
    [][\A name \in ManualNames, phone \in ManualPhones :
          (addManualRegistration(name, phone) /\ name # "" /\ phone # "") =>
              LET before == StoredRegistrations(localStorage)
                  after == StoredRegistrations(localStorage')
              IN /\ Len(after) = Len(before) + 1
                 /\ after[Len(after)].phone = phone
                 /\ after[Len(after)].level = "manual"
                 /\ SubSeq(after, 1, Len(before)) = before
                 /\ CountPhone(after, phone) = CountPhone(before, phone) + 1]_vars

\* C8 witness: the stored list holds two manual entries with the same phone.
ManualRegistrationTwiceWitness ==
    LET list == StoredRegistrations(localStorage)
    IN /\ lastAlert = "student_added"
       /\ \E i, j \in DOMAIN list :
            /\ i < j
            /\ list[i].phone = list[j].phone
            /\ list[i].level = "manual"
            /\ list[j].level = "manual"

\* C10: picking a presentation of at most 50MB starts its upload, and an upload that
\* ends without an error message makes getAll() of the presentations store one record
\* longer; picking a file over 50MB shows the size message and starts nothing, the
\* store unchanged.
PresentationUploadAddsOne ==
    [][/\ \A file \in PresentationFiles :
            handleFileChange(file) =>
                /\ presDB' = presDB
                /\ IF file.size <= PresentationLimit
                   THEN uploading' = [active |-> TRUE, file |-> file]
                   ELSE ~uploading'.active /\ lastAlert' = "presentation_too_big"
       /\ (handleFileChangeOnLoad /\ lastAlert' = "none")
            => Len(getAll(presDB')) = Len(getAll(presDB)) + 1]_vars

\* C10 witness: after two accepted uploads, one of them of exactly 50MB, a third file
\* has just been refused for its size: the store holds the two records.
PresentationUploadWitness ==
    /\ lastAlert = "presentation_too_big"
    /\ Len(getAll(presDB)) = 2
    /\ \E doc \in presDB : doc.name = "deck.pdf"
    /\ ~uploading.active

----------------------------------------------------------------------------
(* Properties of the Cloud Mirror delete and of the analysis flag *)

\* the list holds a record with this id
Holds(list, id) == \E i \in DOMAIN list : list[i].id = id

\* C11: deleteMaterialFromCloud deletes the document record first: the blob deletion is
\* attempted only by the step after a successful record deletion, only for a content
\* reference into object storage, and while it is pending the record is gone; a blob is
\* removed by that step only; a failed blob deletion leaves the collection as it is and
\* shows no failure; a record deletion that fails or cannot start shows the failure and
\* attempts no blob deletion.
CloudDeleteRecordFirst ==
    [][/\ (deletion.phase # "deleteObject" /\ deletion'.phase = "deleteObject")
            => /\ deleteMaterialFromCloudDoc
               /\ includesFirebaseStorage(deletion'.fileUrl)
               /\ ~Holds(cloudDocs', deletion'.id)
       /\ (\E url \in cloudBlobs : url \notin cloudBlobs')
            => /\ deleteMaterialFromCloudBlob
               /\ cloudBlobs' = cloudBlobs \ {deletion.fileUrl}
       /\ deletion.phase = "deleteObject" => ~Holds(cloudDocs, deletion.id)
       /\ deleteMaterialFromCloudBlob
            => /\ cloudDocs' = cloudDocs
               /\ ~Holds(cloudDocs, deletion.id)
               /\ lastAlert' = "none"
               /\ deletion'.phase = "idle"
       /\ (deleteMaterialFromCloudDoc /\ Holds(cloudDocs', deletion.id))
            => /\ lastAlert' = "delete_failed"
               /\ deletion'.phase = "idle"
               /\ cloudBlobs' = cloudBlobs
               /\ cloudDocs' = cloudDocs
       /\ ((\E i \in DOMAIN materials :
                 removeMaterial(materials[i].id, materials[i].content))
               /\ isCloudConfigured /\ ~firebaseDb)
            => /\ lastAlert' = "delete_failed"
               /\ deletion'.phase = "idle"
               /\ cloudBlobs' = cloudBlobs]_vars

\* C11 witness: the record of an uploaded file is deleted and the deletion of its blob,
\* which is still in object storage, is pending.
CloudDeleteRecordFirstWitness ==
    /\ deletion.phase = "deleteObject"
    /\ includesFirebaseStorage(deletion.fileUrl)
    /\ deletion.fileUrl \in cloudBlobs
    /\ ~Holds(cloudDocs, deletion.id)
    /\ cloudDocs = <<LinkMaterial>>

\* the material with this id is neither in the local store nor in the in-memory list
Absent(store, list, id) == (\A r \in store : r.id # id) /\ ~Holds(list, id)

\* C12: in local mode a material that was created and then deleted (its id is below the
\* clock and it is absent from the local store and from the in-memory list) stays
\* absent: no step brings it back, an upload creating a material with a new id.
DeletedMaterialStaysAbsent ==
    [][(~isCloudConfigured /\ lbPhase = "ready")
         => \A id \in 1..(now - 1) :
              Absent(localDB, materials, id) => Absent(localDB', materials', id)]_vars

\* C13: isAnalyzed never reverts in a store: a record of the local materials store, or a
\* document of the cloud collection, whose isAnalyzed is true is after any step of
\* upload, chat send, topic lesson, assignment submission or delete either gone or
\* still has isAnalyzed true.
AnalyzedNeverReverts ==
    [][/\ \A r \in localDB : \A q \in localDB' :
            (r.isAnalyzed /\ q.id = r.id) => q.isAnalyzed
       /\ \A i \in DOMAIN cloudDocs : \A j \in DOMAIN cloudDocs' :
            (cloudDocs[i].isAnalyzed /\ cloudDocs'[j].id = cloudDocs[i].id)
               => cloudDocs'[j].isAnalyzed]_vars

\* C13 witness: an analyzed material of the local store was sent again in a request
\* whose answer is awaited, next to a material uploaded after the first was marked.
AnalyzedNeverRevertsWitness ==
    /\ request.active
    /\ \E r \in localDB :
         /\ r.isAnalyzed
         /\ \E i \in DOMAIN request.toMark : request.toMark[i].id = r.id
    /\ \E q \in localDB : ~q.isAnalyzed

\* every record of materialsToMark is, with isAnalyzed set, in the store of the mode
\* and in the in-memory list
AlreadyMarked(cloud, materialsToMark) ==
    /\ materialsToMark # <<>>
    /\ \A i \in DOMAIN materialsToMark :
         /\ \E j \in DOMAIN materials :
              materials[j].id = materialsToMark[i].id /\ materials[j].isAnalyzed
         /\ IF cloud
            THEN \E j \in DOMAIN cloudDocs :
                   cloudDocs[j].id = materialsToMark[i].id /\ cloudDocs[j].isAnalyzed
            ELSE \E r \in localDB : r.id = materialsToMark[i].id /\ r.isAnalyzed

\* C14: marking again has no observable effect: when every material handed to
\* markMaterialsAsAnalyzed is already marked in the store and in the in-memory list, the
\* call leaves the store, the list and the collection as they are and issues no cloud
\* update.
MarkAgainIsNoOp ==
    [][(analyzeLearningMaterialsReturns /\ AlreadyMarked(request.cloud, request.toMark))
         => /\ localDB' = localDB
            /\ materials' = materials
            /\ cloudDocs' = cloudDocs
            /\ pendingUpdates(request.toMark) = <<>>]_vars

\* C15: the cloud-active flag is a function of the credentials only and is fixed for the
\* session: isFirebaseConfigured never changes; the mounted LearningBox and every upload
\* and AI request in flight use exactly its value, whether or not the initialisation or
\* a Cloud Mirror call failed; and in a configured session no step writes the local
\* materials store.
CloudFlagFixed ==
    [][/\ isFirebaseConfigured' = isFirebaseConfigured
       /\ lbPhase' = "ready" => isCloudConfigured' = isFirebaseConfigured
       /\ batch'.active => batch'.cloud = isFirebaseConfigured
       /\ request'.active => request'.cloud = isFirebaseConfigured
       /\ isFirebaseConfigured => localDB' = localDB]_vars

\* C15 witness: the credentials were pasted, the initialisation failed and an upload
\* failed in uploadFileToCloud; the LearningBox is still in cloud mode and nothing was
\* saved locally.
CloudFlagFixedWitness ==
    /\ isFirebaseConfigured
    /\ ~firebaseDb
    /\ lbPhase = "ready"
    /\ isCloudConfigured
    /\ cloudCalls = {"uploadFileToCloud"}
    /\ ~batch.active
    /\ localDB = {}
    /\ materials = <<>>

----------------------------------------------------------------------------
(* Properties of the local document stores *)

\* no two records of the store share an id
UniqueIds(store) == \A r \in store : \A q \in store : r.id = q.id => r = q

\* C16: no two records of the local materials store share an id, and no two records of
\* the presentations store do, after any sequence of uploads, deletes, mark-analyzed
\* calls and imports.
StoreIdsUnique == UniqueIds(localDB) /\ UniqueIds(presDB)

\* C16 witness: a put has replaced a record: the material uploaded first is in the store
\* with isAnalyzed set, the store holds one record per upload, and the presentations
\* store holds two documents.
StoreIdsUniqueWitness ==
    /\ \E r \in localDB : r.id = 1 /\ r.isAnalyzed /\ r.name = "notes.txt"
    /\ Cardinality(localDB) = 2
    /\ Cardinality(presDB) = 2

----------------------------------------------------------------------------
(* Properties of the import pipeline *)

\* the failure messages of the two imports
FailureMessages == {"backup_invalid", "sync_invalid", "read_failed"}

\* C17: an import that fails reports one failure message and never reloads: the step
\* that ends the reading of a malformed file, and the step that ends the transaction
\* without a commit (a write of the import failed), show a failure message and leave
\* no import in flight whose completion could fire, in both import paths.
ImportFailureReported ==
    [][(/\ importing' # importing
        /\ \/ importing.phase = "reading" /\ ~importing.file.ok
           \/ importing.phase = "opening" /\ importing'.phase # "committed")
         => /\ importing'.phase = "idle"
            /\ lastAlert' \in FailureMessages]_vars

\* the flag writes of reader.onload of path p
RestoreFlagsOf(p, ls, data) ==
    IF p = "admin" THEN RestoreBackupFlags(ls, data) ELSE RestoreSyncFlags(ls, data)

\* the success messages of the two imports, shown right before the reload
SuccessMessages == {"restore_done", "sync_done"}

\* C18: once the transaction of an import has committed the reload eventually fires;
\* and the steps come in this order only: the flag overwrites are applied by the step
\* that opens the transaction, the clear-and-repopulate is done by the step that
\* commits it, and a reload step is taken only from the committed transaction, with the
\* store holding the records of the bundle.
ReloadAfterCommit ==
    /\ (importing.phase = "committed")
          ~> (importing.phase = "idle" /\ lastAlert \in SuccessMessages)
    /\ [][/\ (handleImportBackupComplete \/ handleImportComplete)
               => /\ importing.phase = "committed"
                  /\ HoldsExactly(localDB, MaterialsOf(importing.file.json))
                  /\ lastAlert' \in SuccessMessages
          /\ (importing.phase # "committed" /\ importing'.phase = "committed")
               => /\ importing.phase = "opening"
                  /\ localDB' = RestoreMaterials(localDB, importing.file.json)
          /\ (importing.phase # "opening" /\ importing'.phase = "opening")
               => /\ importing.phase = "reading"
                  /\ localStorage'
                       = RestoreFlagsOf(importing.path, localStorage, importing.file.json)]_vars

\* C18 witness: the reload of a backup import has fired: the success message was shown,
\* the application is back on its first screen state with no import in flight, and the
\* flags and the materials of the bundle are in place.
ReloadAfterCommitWitness ==
    /\ lastAlert = "restore_done"
    /\ importing = IdleImport
    /\ currentView = "HOME"
    /\ getItem(localStorage, K_ANNOUNCEMENT) = Str(<<"welcome">>)
    /\ Cardinality(localDB) = 2

----------------------------------------------------------------------------
(* Properties of the registration list with two tabs *)

\* the list a self-registration leaves: the entry appended unless its phone is stored
WithSelfRegistration(list, newReg) ==
    IF \E i \in DOMAIN list : list[i].phone = newReg.phone THEN list ELSE Append(list, newReg)

\* the list without the entry of this id
WithoutRegistration(list, id) == SelectSeq(list, LAMBDA r : r.id # id)

\* the list with the entry of this id contacted and every other entry as it was
WithContacted(list, id) ==
    [i \in DOMAIN list |-> IF list[i].id = id THEN [list[i] EXCEPT !.status = "contacted"]
                                             ELSE list[i]]

\* a step of each writer of the list leaves, in the store, the writer's single change
\* applied to the list `from(writer)` starts from
WritesApplyOneChangeTo(selfFrom, adminFrom) ==
    LET after == StoredRegistrations(localStorage')
    IN /\ \A name \in RegNames, phone \in Phones :
            (handleRegistration(name, phone) \/ handleRegistrationInSecondTab(name, phone))
                => after = WithSelfRegistration(
                               selfFrom, Registration(now, name, phone, "beginner", "pending"))
       /\ \A name \in ManualNames, phone \in ManualPhones :
            (addManualRegistration(name, phone) /\ name # "" /\ phone # "")
                => after = Append(adminFrom, Registration(now, name, phone, "manual", "pending"))
       /\ \A i \in DOMAIN registrations :
            LET id == registrations[i].id
            IN /\ deleteRegistration(id) => after = WithoutRegistration(adminFrom, id)
               /\ (sendWelcomeEmail(id) \/ sendWelcomeWhatsApp(id))
                    => after = WithContacted(adminFrom, id)

\* C19 as stated: every write of the registrations list (self-registration, manual add,
\* mark contacted, delete) starts from the list stored at the time of the write, so with
\* a writer in a second tab the stored list after any write is the previously stored
\* list with only that writer's change applied.
WritesStartFromStoredList ==
    [][WritesApplyOneChangeTo(StoredRegistrations(localStorage),
                              StoredRegistrations(localStorage))]_vars

\* C19 amended: a self-registration starts from the list stored at the time of the
\* write; a manual add, a mark contacted and a delete start from the dashboard's
\* in-memory list, read when the dashboard mounted, and store that list with the one
\* change applied, whatever a second tab stored in between (the last writer wins).
AdminWritesStartFromLoadedList ==
    [][WritesApplyOneChangeTo(StoredRegistrations(localStorage), registrations)]_vars

\* C19 witness: the dashboard's list has been written and holds a contacted entry,
\* while the entry a later self-registration submitted, younger than every stored
\* entry, is not in the stored list.
AdminWriteOverSecondTabWitness ==
    /\ AdminDashboardMounted
    /\ registrations = StoredRegistrations(localStorage)
    /\ \E i \in DOMAIN registrations : registrations[i].status = "contacted"
    /\ Truthy(getItem(localStorage, K_MY_REGISTRATION))
    /\ LET mine == getItem(localStorage, K_MY_REGISTRATION).s[1]
       IN \A i \in DOMAIN registrations :
            /\ registrations[i].phone # mine.phone
            /\ registrations[i].id < mine.id

----------------------------------------------------------------------------
(* Properties of the status of a registration *)

\* a step sends a welcome message to the registration of this id
ContactAction(id) == sendWelcomeEmail(id) \/ sendWelcomeWhatsApp(id)

\* a step of reader.onload of handleImportBackup stores the list of the file
RestoresRegistrations ==
    /\ handleImportBackupOnLoad
    /\ importing.file.ok
    /\ importing.file.json.registrations.has
    /\ StoredRegistrations(localStorage') = importing.file.json.registrations.v

\* a contact action leaves every entry with another id as it was
ContactLeavesOthers ==
    \A i \in DOMAIN registrations :
        ContactAction(registrations[i].id) =>
            LET before == StoredRegistrations(localStorage)
                after == StoredRegistrations(localStorage')
            IN /\ DOMAIN after = DOMAIN before
               /\ \A j \in DOMAIN before :
                    before[j].id # registrations[i].id => after[j] = before[j]

\* every change of the stored status of an id is pending to contacted by a contact
\* action for that id, or is one of the steps `otherwise`
StatusChangesOnly(otherwise) ==
    LET before == StoredRegistrations(localStorage)
        after == StoredRegistrations(localStorage')
    IN \A i \in DOMAIN before, j \in DOMAIN after :
         (before[i].id = after[j].id /\ before[i].status # after[j].status) =>
             \/ /\ before[i].status = "pending"
                /\ after[j].status = "contacted"
                /\ ContactAction(before[i].id)
             \/ otherwise

\* C20 as stated: the status of a registration changes only from pending to contacted
\* and only by a contact action for its id; no operation of the admin's dashboard sets
\* a contacted registration back to pending, and a contact action changes the status of
\* no other registration.
StatusOnlyByContactAction == [][StatusChangesOnly(FALSE) /\ ContactLeavesOthers]_vars

\* C20 amended: among the table's operations (manual add, delete, the two contact
\* actions) the status of a registration changes only from pending to contacted and
\* only by a contact action for its id, which leaves every other registration as it
\* was; the one other step that changes a stored status is the backup import, which
\* replaces the list by the file's, so a contacted registration is pending again after
\* a backup is restored in which it is pending.
StatusByContactActionOrRestore ==
    [][StatusChangesOnly(RestoresRegistrations) /\ ContactLeavesOthers]_vars

\* C20 witness: a WhatsApp welcome has been sent to one of two stored registrations:
\* it is contacted and the other one is still pending.
ContactedOneOfTwoWitness ==
    LET list == StoredRegistrations(localStorage)
    IN /\ AdminDashboardMounted
       /\ lastAlert = "whatsapp_opened"
       /\ registrations = list
       /\ \E i, j \in DOMAIN list :
            /\ list[i].status = "contacted"
            /\ list[j].status = "pending"

----------------------------------------------------------------------------
(* Properties of the App shell and of the admin login *)

\* C29: the AdminDashboard is rendered (a user is logged in and the current view is
\* ADMIN) only if the session role is admin, in every state that logins, navigation,
\* logouts and reloads reach.
AdminDashboardOnlyForAdmin == AdminDashboardMounted => userRole = "admin"

\* C29 witness: an admin logged out of the dashboard and a student is logged in now,
\* on the home screen.
StudentAfterAdminWitness ==
    /\ userRole = "student"
    /\ currentView = "HOME"
    /\ Truthy(getItem(localStorage, K_ADMIN_PASSWORD))

\* the stored admin password (null when none is stored)
StoredPassword(ls) == getItem(ls, K_ADMIN_PASSWORD)

\* a step of the reset command
ResetCommand == handleAdminLogin("reset") \/ handleAdminLogin("creator")

\* while a password is stored, a login attempt with it succeeds, and the stored
\* password changes only in one of the steps `replacing`
PasswordKept(replacing) ==
    Truthy(StoredPassword(localStorage)) =>
        /\ \A password \in Passwords :
             (handleAdminLogin(password) /\ Str(<<password>>) = StoredPassword(localStorage))
                 => userRole' = "admin"
        /\ StoredPassword(localStorage') # StoredPassword(localStorage) => replacing

\* C30 as stated: once an admin password P is stored, a login attempt with P succeeds in
\* every later state until a reset command is entered: no other step changes the
\* stored password, a successful login with the master code in particular.
PasswordKeptUntilReset == [][PasswordKept(ResetCommand)]_vars

\* C30 amended: once an admin password P is stored, a login attempt with P succeeds
\* until a reset command is entered or a login with the master code succeeds: the
\* master code login stores the master code as the password, so that P is rejected
\* afterwards unless P is the master code.
PasswordKeptUntilResetOrMasterLogin ==
    [][PasswordKept(ResetCommand \/ handleAdminLogin(MASTER_CODE))]_vars

\* C30 witness: the login screen was mounted with a password stored, and a login with
\* that password, which is not the master code, succeeded.
StoredPasswordLoginWitness ==
    /\ userRole = "admin"
    /\ ~isSetupMode
    /\ Truthy(StoredPassword(localStorage))
    /\ StoredPassword(localStorage) # Str(<<MASTER_CODE>>)

----------------------------------------------------------------------------
(* Properties of an import that fails *)

\* C28: when reader.onload of either import finds that the file is not valid JSON,
\* every flag and both document stores keep their values, no reload fires (the role,
\* the view and the open modal stay), a failure message is shown and the import has
\* ended, so that the next one can be started.
MalformedImportChangesNothing ==
    [][((handleImportBackupOnLoad \/ handleImportOnLoad) /\ ~importing.file.ok) =>
          /\ localStorage' = localStorage
          /\ localDB' = localDB
          /\ presDB' = presDB
          /\ <<userRole, currentView, showSyncModal, registrations>>'
               = <<userRole, currentView, showSyncModal, registrations>>
          /\ lastAlert' \in {"backup_invalid", "sync_invalid"}
          /\ importing'.phase = "idle"]_vars

\* C28 witness: an admin picked a file in the student's sync modal and was told that it
\* is not valid; the stored role is still admin, which a parsed file would have
\* overwritten, and no import is in flight.
MalformedImportWitness ==
    /\ userRole = "admin"
    /\ showSyncModal
    /\ lastAlert = "sync_invalid"
    /\ getItem(localStorage, K_ROLE) = Str(<<"admin">>)
    /\ importing.phase = "idle"

\* C25: in local mode the in-memory list and the local store hold the same materials
\* whenever no upload, delete or AI request is in progress; in particular the materials
\* that an assignment submission uploaded and sent are still in the in-memory list when
\* its analysis completes and they are marked.
AssignmentUploadsStayListed ==
    [][(analyzeLearningMaterialsReturns /\ ~request.cloud)
         => \A i \in DOMAIN request.toMark :
              Holds(materials, request.toMark[i].id)
                  => Holds(materials', request.toMark[i].id)]_vars

\* the AI requests in flight
InFlight == (IF request.active THEN 1 ELSE 0) + Len(overlapping)

\* C26: loading is true whenever an AI request of handleSend, handleTopicLearn or
\* handleAssignmentSubmission is in flight, at most one such request is in flight at a
\* time, and the transcript never holds more than one placeholder message with the id
\* 'loading'.
OneRequestOnePlaceholder ==
    /\ InFlight > 0 => loading
    /\ InFlight <= 1
    /\ placeholders <= 1

\* C21: a rejection of openDB is caught at every call site (the LearningBox's load,
\* upload, delete, mark-analyzed and reset, the presentations' load, save and delete,
\* the admin's statistics, export and import, the student's export and import) and
\* surfaced as a message; it never escapes as an unhandled promise rejection.  Without
\* the Cloud Mirror openDB is the only operation of the LearningBox that can reject.
OpenDBRejectionCaught == ~firebaseDb => ~unhandled

----------------------------------------------------------------------------
(* Properties of the store operations *)

\* the records that a read by id finds in a store
ReadById(store, id) == {r \in store : r.id = id}

\* the i-th record of the list is the last one of the list that is written under its id
LastWrite(list, i) == \A j \in DOMAIN list : j > i => list[j].id # list[i].id

\* C22: after put(m) the store holds under m.id a record equal to m in every field, in
\* the materials store and in the presentations store: after an upload that saved its
\* file, after a mark-analyzed that resolved (for the last record it wrote under each
\* id) and after a presentation save, the only record read under the id is the record
\* that was written.
PutThenRead ==
    [][/\ (analyzeLearningMaterialsReturns /\ ~request.cloud /\ loading /\ ~loading')
            => \A i \in DOMAIN request.toMark :
                 LastWrite(request.toMark, i)
                     => ReadById(localDB', request.toMark[i].id)
                            = {Analyzed(request.toMark[i])}
       /\ (processFilesStep /\ ~batch.cloud /\ now' # now)
            => ReadById(localDB', now) = {LearningMaterial(now, batch.files[batch.i], DataURL)}
       /\ (handleFileChangeOnLoad /\ now' # now)
            => ReadById(presDB', now) = {PresentationDoc(now, uploading.file)}]_vars

\* C22 witness: a mark-analyzed has written over the record of an upload, which is read
\* back analyzed beside a record that no request has sent, and a presentation is stored.
PutThenReadWitness ==
    /\ ~request.active /\ ~loading
    /\ \E r \in localDB : r.isAnalyzed /\ ReadById(localDB, r.id) = {r}
    /\ \E r \in localDB : ~r.isAnalyzed
    /\ presDB # {}

\* what a delete that committed leaves: no record under the id, the store as it was
\* when it held none, and a store that a second delete of the id does not change
Deleted(before, after, id) ==
    /\ ReadById(after, id) = {}
    /\ ReadById(before, id) = {} => after = before
    /\ delete(after, id) = after

ResetEmptiesStoreAndList ==
    [][(handleResetProgress(TRUE) /\ ~isCloudConfigured)
         => getAll(localDB') = <<>> /\ materials' = <<>>]_vars

----------------------------------------------------------------------------
(* Properties of the topics *)

\* C27: a topic id enters the completed topics only through a correct answer to that
\* topic's quiz, it is never twice in the list, and once a correct answer was given for
\* a topic that was not yet completed, the topic is in the list after the delay of one
\* second, also when the quiz was closed and answered correctly again within the delay.
CorrectAnswerCompletesTopic ==
    [][(/\ handleQuizAnswerTimeout
        /\ ~includes(Head(timers).completedTopics, Head(timers).topicId))
         => includes(completedTopics', Head(timers).topicId)]_vars

====
